---- MODULE Spec2Model ----
(***************************************************************************)
(* A model of WhatsAppFlow's message pipeline.                             *)
(*                                                                         *)
(*  - ChatbotService (src/services/chatbotService.js): the per-sender      *)
(*    queue, the _processQueue worker, _handleSingleMessage and the        *)
(*    rate limiter.  JavaScript runs each handler to its next `await`      *)
(*    without interruption, so one action is one such run-to-await         *)
(*    segment.                                                             *)
(*  - GeminiClient (src/gemini/geminiClient.js): the credential slots,     *)
(*    getBestClient and the retry loop of generateContent.                 *)
(*                                                                         *)
(* The environment is bounded by budgets held in env and genv: how many    *)
(* events the channel still delivers, how many failures are still          *)
(* injected, how far the clock still moves.  Spec explores the dispatcher  *)
(* from two environments (two senders with faults; one sender sending a    *)
(* burst past the rate limit), SpecGemini the client from two (one call    *)
(* alone; two calls in flight together).                                   *)
(***************************************************************************)
EXTENDS Integers, Sequences, FiniteSets, TLC

(***************************************************************************)
(* Bounds of the model (not program constants).                            *)
(***************************************************************************)
MaxSubmit  == 2      \* events of the first sender, general environment
OtherSubmit == 1     \* events of every other sender, general environment
MaxBurst   == 12     \* events the channel delivers for one sender, burst environment
MaxFaults  == 1      \* injected failures (store, backend, socket, disconnect)
MaxSkips   == 1      \* group messages that do not mention the bot
MaxWorkers == 2      \* _processQueue invocations representable per sender
TickStep   == 30000  \* granularity of Date.now() in ms
MaxTicks   == 0      \* clock steps explored in the general environment
BurstTicks == 3      \* clock steps explored in the burst environment
NumClients == 2      \* configured API keys (credential slots)
MaxArg     == 1      \* largest maxRetries a caller passes explicitly
MaxGTicks  == 3      \* timer deadlines the clock moves on to, one call alone
MaxFails   == 4      \* failing attempts the backend produces, one call alone
DuoTicks   == 1      \* timer deadlines the clock moves on to, two calls in flight
DuoFails   == 2      \* failing attempts the backend produces, two calls in flight
MaxLates   == 1      \* abandoned requests that settle after their timeout
SmallHistory == 2    \* config.bot.maxChatHistory (MAX_CHAT_HISTORY), general environment
WideHistory  == 52   \* config.bot.maxChatHistory (MAX_CHAT_HISTORY), bulk environment
BulkExtra    == 5    \* turns appended beyond maxChatHistory, bulk environment
MaxAppends   == 2    \* addMessage calls of the first sender, general environment
MaxEmotions  == 1    \* storeEmotionalContext calls, general environment
FaultAppends == 1    \* addMessage calls per sender, crash and shutdown environments
MaxFlushes   == 2    \* saveChatHistory invocations representable at a time
MaxIoFaults  == 1    \* failing fs calls, crash environment
ShutdownFaults == 4  \* failing fs calls, shutdown environment
StoreTicks   == 2    \* clock steps of the store, general and crash environments
ShutdownTicks == 3   \* clock steps of the store, shutdown environment
StepMs       == 2000 \* a gap between two mutations, shorter than the quiet period
MaxCrashes   == 1    \* times the process is stopped and started again
MaxReads     == 1    \* getConversationContext calls
ContentSubmit == 1   \* events of the first sender, content environment
MaxSettles   == 2    \* background subtasks that settle, content environment
ContentTicks == 1    \* clock steps, content environment
MaxLazy      == 2    \* addMessage calls that start before the store is initialized
LazyTicks    == 2    \* clock steps of the store, lazy environment
CleanupSubmit == 2   \* events of the first sender, cleanup environment
MaxCleanups  == 1    \* calls of the service's cleanup(), cleanup environment
FewTurns     == 3    \* turns of a short conversation found on disk, retention environment
ManyTurns    == 15   \* turns of a long conversation found on disk, retention environment
MaxCycles    == 2    \* runs of the periodic cleanup, retention environment
OutageFaults == 4    \* failing fs calls, outage environment
OutageTicks  == 5    \* clock steps of the store, outage environment
DrainAppends == 2    \* addMessage calls of the first sender, drain environment

(***************************************************************************)
(* Program constants.                                                      *)
(***************************************************************************)
RateLimitMax   == 10     \* chatbotService.js:185
RateWindowMs   == 60000  \* chatbotService.js:181, 197
SendMaxRetries == 3      \* whatsappClient.js:690
IdleCapSeconds    == 60     \* geminiClient.js:90
GeminiTimeout     == 30000  \* config.gemini.timeout
DefaultMaxRetries == 3      \* config.gemini.maxRetries
RetryDelay        == 1000   \* config.gemini.retryDelay
QuietPeriodMs == 5000   \* jsonDb.js:136, debounce of scheduleSave
DbMaxRetries  == 3      \* jsonDb.js:17
DbRetryDelay  == 1000   \* jsonDb.js:18
ContextCap    == 50     \* jsonDb.js:231
EmotionCap    == 20     \* jsonDb.js:307
CleanupIntervalMs == 21600000  \* jsonDb.js:383, 6 * 60 * 60 * 1000
RetentionDays     == 30        \* jsonDb.js:396
KeepThreshold     == 10        \* jsonDb.js:402

Senders == {"a", "b"}
BurstSender == "a"
Slots == 1..MaxWorkers

VARIABLES
    messageQueue,        \* ChatbotService.messageQueue: sender -> array of messageInfo
    processingMessages,  \* ChatbotService.processingMessages: Set of senders
    rateLimiter,         \* ChatbotService.rateLimiter: sender -> {count, resetTime}
    workers,             \* the running _processQueue invocations, by sender and slot
    chatHistory,         \* jsonDb.chatHistory: sender -> turns, as <<role, event id>>
    isConnected,         \* whatsappClient.isConnected
    now,                 \* Date.now()
    env,                 \* what the environment may still do (events, faults)
    submitted,           \* per sender: number of queueMessage calls so far
    dequeued,            \* per sender: number of shift() calls so far
    backendLog,          \* per sender: event ids for which generateContent was invoked
    win,                 \* per sender: the current rate window as an observer sees it
    dropped,             \* per sender: number of rate-limited events so far
    background,          \* per sender: the background subtasks of its latest event
    cleanedAt,           \* the counts of events when cleanup() of the service last ran
    requestCounts,       \* GeminiClient.requestCounts: client index -> count
    errorCounts,         \* GeminiClient.errorCounts: client index -> count
    lastRequestTimes,    \* GeminiClient.lastRequestTimes: client index -> ms
    calls,               \* the generateContent invocations, by call id
    gnow,                \* Date.now() as the Gemini client reads it
    genv,                \* what the backend's environment may still do
    abandoned,           \* requests still running after their timeout won the race
    conversations,       \* JsonDatabase.chatHistory: the Map sender -> conversation
    isInitialized,       \* JsonDatabase.isInitialized
    saveTimeout,         \* JsonDatabase.saveTimeout: handle of the last timer, 0 = null
    timers,              \* the pending setTimeout timers of scheduleSave
    intervals,           \* the armed setInterval timers of startPeriodicCleanup
    flushes,             \* the running saveChatHistory invocations, by slot
    file,                \* the durable file config.paths.chatHistoryFile
    tmp,                 \* the temporary file `${chatHistoryFile}.tmp`
    phase,               \* the process: "new", "up", "down" (exited), "dead" (startup failed)
    snow,                \* Date.now() as the store reads it, in seconds
    senv,                \* what the store's environment may still do
    obs,                  \* what an observer of the store has seen so far
    lazy,                \* addMessage calls that found the store uninitialized
    health               \* the run of the health check utility

dvars == <<messageQueue, processingMessages, rateLimiter, workers, chatHistory,
           isConnected, now, env, submitted, dequeued, backendLog, win, dropped,
           background, cleanedAt>>

gvars == <<requestCounts, errorCounts, lastRequestTimes, calls, gnow, genv, abandoned>>

svars == <<conversations, isInitialized, saveTimeout, timers, intervals, flushes, file, tmp,
           phase, snow, senv, obs, lazy>>

hvars == <<health>>

vars == <<dvars, gvars, svars, hvars>>

(***************************************************************************)
(* Rate limiter: isRateLimited / updateRateLimit.                          *)
(***************************************************************************)
NoEntry == [has |-> FALSE, count |-> 0, resetTime |-> 0]

\* `this.rateLimiter.get(userId) || { count: 0, resetTime: now }`
LimitsOrDefault(e, t, dflt) ==
    IF e.has THEN e ELSE [has |-> FALSE, count |-> 0, resetTime |-> dflt]

\* the lazy reset of isRateLimited, applied to the object it holds
LazyReset(e, t) ==
    IF t > e.resetTime
      THEN [e EXCEPT !.count = 0, !.resetTime = t + RateWindowMs]
      ELSE e

isRateLimited_OffByOne(e, t) ==
    LazyReset(LimitsOrDefault(e, t, t), t).count > RateLimitMax

isRateLimited(e, t) ==
    LazyReset(LimitsOrDefault(e, t, t), t).count >= RateLimitMax

\* The map entry after isRateLimited ran: the reset mutates the stored object;
\* the default object of an absent sender is never stored.
EntryAfterCheck(e, t) == IF e.has THEN LazyReset(e, t) ELSE e

updateRateLimit(e, t) ==
    LET u == LimitsOrDefault(e, t, t + RateWindowMs)
    IN  [has |-> TRUE, count |-> u.count + 1, resetTime |-> u.resetTime]

\* lines 97-110: the entry after the rate check and, when it passed, the update
EntryAfterPrefix_CountDrops(e, t) == updateRateLimit(EntryAfterCheck(e, t), t)

EntryAfterPrefix(e, t) ==
    IF isRateLimited(e, t)
      THEN EntryAfterCheck(e, t)
      ELSE updateRateLimit(EntryAfterCheck(e, t), t)

(***************************************************************************)
(* Queue and worker bookkeeping.                                           *)
(***************************************************************************)
FreeWorker == [pc |-> "free", msg |-> 0, failed |-> FALSE, apologies |-> 0,
               toolsProcessed |-> FALSE]

\* processToolsWithAI, processMemoryInBackground, processRelationshipAndPersona:
\* "idle" before the first event, then "running", "done" or "failed" (the
\* analysis threw and the subtask's own catch block swallowed it)
Subtasks == {"tools", "memory", "relationship"}
NoBackground == [t \in Subtasks |-> "idle"]
Launched == [t \in Subtasks |-> "running"]

RaceReady_NoTimer(bg) == bg["tools"] # "running"

\* lines 245-248: the race of the tool results with the 2 s timer settles
\* when the tools have, and by the timer at the latest
RaceReady(bg) == TRUE

\* the value of the race: the tool results, or null from the timer or from
\* the catch block of processToolsWithAI (lines 383-386)
ToolResults(bg) == IF bg["tools"] = "done" THEN "results" ELSE "null"

AssemblyThrows_Uncaught(bg) == bg["tools"] = "failed"

\* processMessageContent returns {finalText, metadata} from its try block and
\* from its catch block (lines 260-265): it never throws
AssemblyThrows(bg) == FALSE

Active(s) == {k \in Slots : workers[s][k].pc # "free"}

\* the lowest free slot of a sender, 0 when all are in use
FreeSlot(s) ==
    IF \E k \in Slots : workers[s][k].pc = "free"
      THEN CHOOSE k \in Slots : /\ workers[s][k].pc = "free"
                                /\ \A j \in Slots : workers[s][j].pc = "free" => k <= j
      ELSE 0

\* `if (!this.processingMessages.has(sender))`
ShouldStart_NoCheck(pm, s) == TRUE

ShouldStart_Global(pm, s) == pm = {}

ShouldStart(pm, s) == s \notin pm

\* `this.messageQueue.get(sender).shift()`
ShiftMsg_Pop(q) == [msg |-> q[Len(q)], rest |-> SubSeq(q, 1, Len(q) - 1)]

ShiftMsg(q) == [msg |-> Head(q), rest |-> Tail(q)]

\* whatsappClient.sendMessage: throws when disconnected, else tries the socket
\* up to 3 times; sockFails is the number of consecutive failing socket sends.
sendMessage(conn, sockFails) ==
    IF ~conn THEN "throw"
    ELSE IF sockFails < SendMaxRetries THEN "ok" ELSE "throw"

UserTurns(s) == SelectSeq(chatHistory[s], LAMBDA t : t[1] = "user")

(***************************************************************************)
(* _handleSingleMessage from its entry, through the presence indicator      *)
(* (line 113, which never throws), to the race that processMessageContent   *)
(* awaits (lines 80-116 and 218-248).                                      *)
(***************************************************************************)
HandleSingleMessage(s, k, m) ==
    LET e       == rateLimiter[s]
        limited == isRateLimited(e, now)
        fresh   == (~e.has) \/ now > e.resetTime
    IN
    IF m.skip
      THEN \* group message without the bot's name: return before the rate check
           /\ workers' = [workers EXCEPT ![s][k] =
                            [pc |-> "loop", msg |-> m.id, failed |-> FALSE, apologies |-> 0,
                             toolsProcessed |-> FALSE]]
           /\ UNCHANGED <<rateLimiter, win, dropped, background>>
      ELSE /\ rateLimiter' = [rateLimiter EXCEPT ![s] = EntryAfterPrefix(e, now)]
           /\ win' = [win EXCEPT ![s] =
                        IF fresh
                          THEN [start |-> now, checked |-> 1,
                                passed |-> IF limited THEN 0 ELSE 1]
                          ELSE [start |-> @.start, checked |-> @.checked + 1,
                                passed |-> @.passed + (IF limited THEN 0 ELSE 1)]]
           /\ dropped' = [dropped EXCEPT ![s] = @ + (IF limited THEN 1 ELSE 0)]
           /\ workers' = [workers EXCEPT ![s][k] =
                            [pc |-> IF limited THEN "loop" ELSE "assemble",
                             msg |-> m.id, failed |-> FALSE, apologies |-> 0,
                             toolsProcessed |-> FALSE]]
           /\ background' = IF limited THEN background
                             ELSE [background EXCEPT ![s] = Launched]

\* the loop body of _processQueue (lines 62-64) on a non-empty queue q
Dequeue(s, k, q, pm) ==
    /\ messageQueue' = [messageQueue EXCEPT ![s] = ShiftMsg(q).rest]
    /\ processingMessages' = pm
    /\ dequeued' = [dequeued EXCEPT ![s] = @ + 1]
    /\ HandleSingleMessage(s, k, ShiftMsg(q).msg)

\* the finally block of _processQueue (lines 68-72)
Finish(s, k) ==
    /\ processingMessages' = processingMessages \ {s}
    /\ messageQueue' = [messageQueue EXCEPT ![s] = <<>>]
    /\ workers' = [workers EXCEPT ![s][k] = FreeWorker]
    /\ UNCHANGED <<rateLimiter, win, dropped, dequeued, background>>

(***************************************************************************)
(* Actions of the dispatcher.                                              *)
(***************************************************************************)
\* queueMessage(messageInfo), which starts _processQueue synchronously
queueMessage(s, skip) ==
    /\ env.budget[s] > 0
    /\ skip => env.skips > 0
    /\ env' = [env EXCEPT !.budget[s] = @ - 1,
                          !.skips = IF skip THEN @ - 1 ELSE @]
    /\ submitted' = [submitted EXCEPT ![s] = @ + 1]
    /\ LET q == Append(messageQueue[s], [id |-> submitted[s] + 1, skip |-> skip])
       IN  IF ShouldStart(processingMessages, s)
             THEN /\ FreeSlot(s) # 0
                  /\ Dequeue(s, FreeSlot(s), q, processingMessages \cup {s})
             ELSE /\ messageQueue' = [messageQueue EXCEPT ![s] = q]
                  /\ UNCHANGED <<processingMessages, workers, dequeued,
                                 rateLimiter, win, dropped, background>>
    /\ UNCHANGED <<chatHistory, isConnected, now, backendLog>>
    /\ UNCHANGED <<cleanedAt, gvars, svars, hvars>>

\* _processQueue resumes after `await this._handleSingleMessage(...)` returned
processQueue(s, k) ==
    /\ workers[s][k].pc = "loop"
    /\ IF Len(messageQueue[s]) > 0
         THEN Dequeue(s, k, messageQueue[s], processingMessages)
         ELSE Finish(s, k)
    /\ UNCHANGED <<chatHistory, isConnected, now, env, submitted, backendLog>>
    /\ UNCHANGED <<cleanedAt, gvars, svars, hvars>>

\* _processQueue resumes with _handleSingleMessage rejected: catch, then finally
processQueueCatch(s, k) ==
    /\ workers[s][k].pc = "thrown"
    /\ Finish(s, k)
    /\ UNCHANGED <<chatHistory, isConnected, now, env, submitted, backendLog>>
    /\ UNCHANGED <<background, cleanedAt, gvars, svars, hvars>>

\* a background subtask of the sender's latest event settles: its analysis
\* returned, or threw into the subtask's catch block (lines 328, 371, 383)
subtaskSettles(s, t, out) ==
    /\ background[s][t] = "running"
    /\ env.settles > 0
    /\ env' = [env EXCEPT !.settles = @ - 1]
    /\ background' = [background EXCEPT ![s][t] = out]
    /\ UNCHANGED <<messageQueue, processingMessages, rateLimiter, workers, chatHistory,
                   isConnected, now, submitted, dequeued, backendLog, win, dropped>>
    /\ UNCHANGED <<cleanedAt, gvars, svars, hvars>>

\* the race of processMessageContent settles and the method returns (lines
\* 245-265); _handleSingleMessage goes on to the typing indicator (line 119)
assembleContent(s, k) ==
    /\ workers[s][k].pc = "assemble"
    /\ RaceReady(background[s])
    /\ workers' = [workers EXCEPT ![s][k] =
                     IF AssemblyThrows(background[s])
                       THEN [@ EXCEPT !.pc = "catch", !.failed = TRUE]
                       ELSE [@ EXCEPT !.pc = "content",
                                      !.toolsProcessed = ToolResults(background[s]) = "results"]]
    /\ UNCHANGED <<messageQueue, processingMessages, rateLimiter, chatHistory, isConnected,
                   now, env, submitted, dequeued, backendLog, win, dropped, background>>
    /\ UNCHANGED <<cleanedAt, gvars, svars, hvars>>

\* lines 119-134: the typing indicator and the thinking delay are over;
\* jsonDb.addMessage(sender, 'user', ...) runs and returns or throws
addUserMessage(s, k, ok) ==
    /\ workers[s][k].pc = "content"
    /\ ~ok => env.faults > 0
    /\ env' = [env EXCEPT !.faults = IF ok THEN @ ELSE @ - 1]
    /\ chatHistory' = [chatHistory EXCEPT ![s] =
                         IF ok THEN Append(@, <<"user", workers[s][k].msg>>) ELSE @]
    /\ workers' = [workers EXCEPT ![s][k] =
                     IF ok THEN [@ EXCEPT !.pc = "stored"]
                           ELSE [@ EXCEPT !.pc = "catch", !.failed = TRUE]]
    /\ UNCHANGED <<messageQueue, processingMessages, rateLimiter, isConnected, now,
                   submitted, dequeued, backendLog, win, dropped>>
    /\ UNCHANGED <<background, cleanedAt, gvars, svars, hvars>>

\* generateAIResponse reaches geminiClient.generateContent (line 304)
invokeBackend(s, k) ==
    /\ workers[s][k].pc = "stored"
    /\ backendLog' = [backendLog EXCEPT ![s] = Append(@, workers[s][k].msg)]
    /\ workers' = [workers EXCEPT ![s][k].pc = "generate"]
    /\ UNCHANGED <<messageQueue, processingMessages, rateLimiter, chatHistory,
                   isConnected, now, env, submitted, dequeued, win, dropped>>
    /\ UNCHANGED <<background, cleanedAt, gvars, svars, hvars>>

AssistantStored_Regardless(genOk, storeOk) == storeOk

\* lines 137-141: jsonDb.addMessage(sender, 'assistant', ...) is reached only
\* when generateAIResponse returned, and stores the turn unless it throws
AssistantStored(genOk, storeOk) == genOk /\ storeOk

\* generateContent settles; on success the assistant turn is stored (line 141)
backendReturn(s, k, genOk, storeOk) ==
    /\ workers[s][k].pc = "generate"
    /\ ~genOk => storeOk
    /\ ~(genOk /\ storeOk) => env.faults > 0
    /\ env' = [env EXCEPT !.faults = IF genOk /\ storeOk THEN @ ELSE @ - 1]
    /\ chatHistory' = [chatHistory EXCEPT ![s] =
                         IF AssistantStored(genOk, storeOk)
                           THEN Append(@, <<"assistant", workers[s][k].msg>>) ELSE @]
    /\ workers' = [workers EXCEPT ![s][k] =
                     IF genOk /\ storeOk
                       THEN [@ EXCEPT !.pc = "send"]
                       ELSE [@ EXCEPT !.pc = "catch", !.failed = TRUE]]
    /\ UNCHANGED <<messageQueue, processingMessages, rateLimiter, isConnected, now,
                   submitted, dequeued, backendLog, win, dropped>>
    /\ UNCHANGED <<background, cleanedAt, gvars, svars, hvars>>

\* whatsappClient.sendMessage(sender, cleanResponse) settles (line 144)
sendReply(s, k, sockFails) ==
    /\ workers[s][k].pc = "send"
    /\ (isConnected /\ sockFails = SendMaxRetries) => env.faults > 0
    /\ env' = [env EXCEPT !.faults =
                 IF isConnected /\ sockFails = SendMaxRetries THEN @ - 1 ELSE @]
    /\ workers' = [workers EXCEPT ![s][k] =
                     IF sendMessage(isConnected, sockFails) = "ok"
                       THEN [@ EXCEPT !.pc = "loop"]
                       ELSE [@ EXCEPT !.pc = "catch", !.failed = TRUE]]
    /\ UNCHANGED <<messageQueue, processingMessages, rateLimiter, chatHistory,
                   isConnected, now, submitted, dequeued, backendLog, win, dropped>>
    /\ UNCHANGED <<background, cleanedAt, gvars, svars, hvars>>

\* the catch block of _handleSingleMessage: the apology is sent (lines 154-159)
sendApology(s, k, sockFails) ==
    /\ workers[s][k].pc = "catch"
    /\ (isConnected /\ sockFails = SendMaxRetries) => env.faults > 0
    /\ env' = [env EXCEPT !.faults =
                 IF isConnected /\ sockFails = SendMaxRetries THEN @ - 1 ELSE @]
    /\ workers' = [workers EXCEPT ![s][k] =
                     IF sendMessage(isConnected, sockFails) = "ok"
                       THEN [@ EXCEPT !.pc = "loop", !.apologies = @ + 1]
                       ELSE [@ EXCEPT !.pc = "thrown"]]
    /\ UNCHANGED <<messageQueue, processingMessages, rateLimiter, chatHistory,
                   isConnected, now, submitted, dequeued, backendLog, win, dropped>>
    /\ UNCHANGED <<background, cleanedAt, gvars, svars, hvars>>

\* the channel loses or regains its connection
Disconnect ==
    /\ isConnected /\ env.faults > 0
    /\ isConnected' = FALSE
    /\ env' = [env EXCEPT !.faults = @ - 1]
    /\ UNCHANGED <<messageQueue, processingMessages, rateLimiter, workers, chatHistory,
                   now, submitted, dequeued, backendLog, win, dropped>>
    /\ UNCHANGED <<background, cleanedAt, gvars, svars, hvars>>

Reconnect ==
    /\ ~isConnected
    /\ isConnected' = TRUE
    /\ UNCHANGED <<messageQueue, processingMessages, rateLimiter, workers, chatHistory,
                   now, env, submitted, dequeued, backendLog, win, dropped>>
    /\ UNCHANGED <<background, cleanedAt, gvars, svars, hvars>>

Tick ==
    /\ env.ticks > 0
    /\ now' = now + TickStep
    /\ env' = [env EXCEPT !.ticks = @ - 1]
    /\ UNCHANGED <<messageQueue, processingMessages, rateLimiter, workers, chatHistory,
                   isConnected, submitted, dequeued, backendLog, win, dropped>>
    /\ UNCHANGED <<background, cleanedAt, gvars, svars, hvars>>

\* cleanup() of the service (lines 533-547): the Set, the queues and the rate
\* limiter are cleared under whatever worker is suspended at an await
chatbotCleanup ==
    /\ env.cleanups > 0
    /\ env' = [env EXCEPT !.cleanups = @ - 1]
    /\ processingMessages' = {}
    /\ messageQueue' = [s \in Senders |-> <<>>]
    /\ rateLimiter' = [s \in Senders |-> NoEntry]
    /\ cleanedAt' = [ran |-> TRUE, submitted |-> submitted, dequeued |-> dequeued]
    /\ UNCHANGED <<workers, chatHistory, isConnected, now, submitted, dequeued, backendLog,
                   win, dropped, background>>
    /\ UNCHANGED <<gvars, svars, hvars>>

(***************************************************************************)
(* GeminiClient: credential slots, getBestClient, generateContent.         *)
(***************************************************************************)
Clients == 1..NumClients
Calls == {"x", "y"}
FirstCall == "x"

Min(x, y) == IF x <= y THEN x ELSE y

RECURSIVE Pow2(_)
Pow2(n) == IF n = 0 THEN 1 ELSE 2 * Pow2(n - 1)

\* Texts are sequences of characters, error messages sequences of words.
IsSpace(ch) == ch \in {" ", "\n"}

RECURSIVE TrimLeft(_)
TrimLeft(t) == IF t # <<>> /\ IsSpace(Head(t)) THEN TrimLeft(Tail(t)) ELSE t

RECURSIVE TrimRight(_)
TrimRight(t) ==
    IF t # <<>> /\ IsSpace(t[Len(t)]) THEN TrimRight(SubSeq(t, 1, Len(t) - 1)) ELSE t

Trim(t) == TrimRight(TrimLeft(t))

IsEmptyResponse_NoTrim(t) == t = <<>>

\* `!responseText || responseText.trim().length === 0`
IsEmptyResponse(t) == t = <<>> \/ Len(Trim(t)) = 0

ResponseTexts == {<<>>, <<" ">>, <<"o", "k">>, <<" ", "h", "i">>}

TimeoutError == <<"Request", "timeout">>
EmptyResponseError == <<"Empty", "response", "from", "Gemini">>
RateLimitError == <<"429", "RATE_LIMIT_EXCEEDED">>
UnavailableError == <<"503", "UNAVAILABLE">>
AuthError == <<"API", "key", "not", "valid">>
InvalidRequestError == <<"400", "INVALID_ARGUMENT">>

\* the rejections the backend produces: two transient, two fatal
BackendErrors == {RateLimitError, UnavailableError, AuthError, InvalidRequestError}

FatalErrors == {AuthError, InvalidRequestError}

\* `errorMessage.includes(sub)`
Includes(msg, sub) ==
    \E i \in 1..Len(msg) :
        i + Len(sub) - 1 <= Len(msg) /\ SubSeq(msg, i, i + Len(sub) - 1) = sub

retryableErrors ==
    {<<"Request", "timeout">>, <<"RATE_LIMIT_EXCEEDED">>, <<"INTERNAL">>,
     <<"UNAVAILABLE">>, <<"DEADLINE_EXCEEDED">>, <<"Internal", "error">>,
     <<"Service", "temporarily", "unavailable">>}

isRetryableError(msg) == \E sub \in retryableErrors : Includes(msg, sub)

\* score = (1 - errorRate) * 100 + min(msSinceLastRequest / 1000, 60), kept as
\* the fraction ScoreNum / ScoreDen so that the comparison stays exact
ScoreNum(rc, ec, lt, t, i) ==
    LET r == IF rc[i] > 0 THEN rc[i] ELSE 1
        e == IF rc[i] > 0 THEN ec[i] ELSE 0
    IN  (r - e) * 100 * 1000 + Min(t - lt[i], IdleCapSeconds * 1000) * r

ScoreDen(rc, i) == 1000 * (IF rc[i] > 0 THEN rc[i] ELSE 1)

RECURSIVE BestFrom_LastWins(_, _, _, _, _, _, _, _)
BestFrom_LastWins(i, best, bn, bd, rc, ec, lt, t) ==
    IF i > NumClients THEN best
    ELSE IF ScoreNum(rc, ec, lt, t, i) * bd >= bn * ScoreDen(rc, i)
      THEN BestFrom_LastWins(i + 1, i, ScoreNum(rc, ec, lt, t, i), ScoreDen(rc, i),
                             rc, ec, lt, t)
      ELSE BestFrom_LastWins(i + 1, best, bn, bd, rc, ec, lt, t)

\* the loop of getBestClient from client i on; best has score bn / bd
RECURSIVE BestFrom(_, _, _, _, _, _, _, _)
BestFrom(i, best, bn, bd, rc, ec, lt, t) ==
    IF i > NumClients THEN best
    ELSE IF ScoreNum(rc, ec, lt, t, i) * bd > bn * ScoreDen(rc, i)
      THEN BestFrom(i + 1, i, ScoreNum(rc, ec, lt, t, i), ScoreDen(rc, i), rc, ec, lt, t)
      ELSE BestFrom(i + 1, best, bn, bd, rc, ec, lt, t)

\* bestClient = clients[0], bestScore = -1
getBestClient(rc, ec, lt, t) == BestFrom(1, 1, -1, 1, rc, ec, lt, t)

NullArg == [given |-> FALSE, n |-> 0]
Arg(n) == [given |-> TRUE, n |-> n]
Args == {NullArg} \cup {Arg(n) : n \in 0..MaxArg}

\* `const retries = maxRetries || config.gemini.maxRetries`
Retries(arg) == IF arg.given /\ arg.n # 0 THEN arg.n ELSE DefaultMaxRetries

IdleCall == [pc |-> "idle", arg |-> NullArg, retries |-> 0, attempt |-> 0,
             client |-> 0, started |-> 0, wakeAt |-> 0, lastError |-> <<>>,
             result |-> <<>>, thrown |-> <<>>, attempts |-> 0, delay |-> 0]

ReturnValue_Trimmed(text) == Trim(text)

\* `return responseText` (line 169)
ReturnValue(text) == text

ExhaustedError_Generic(msg) == <<"Gemini", "request", "failed:", "Unknown", "error">>

\* `new Error(`Gemini request failed: ${lastError?.message || 'Unknown error'}`)`
ExhaustedError(msg) ==
    <<"Gemini", "request", "failed:">> \o (IF msg = <<>> THEN <<"Unknown", "error">> ELSE msg)

\* updateRequestCount (lines 237-240): a get and a set with no await between
updateRequestCount(counts, i) == [counts EXCEPT ![i] = @ + 1]

updateErrorCount_FirstOnly(counts, i) == [counts EXCEPT ![i] = 1]

\* updateErrorCount (lines 245-248)
updateErrorCount(counts, i) == [counts EXCEPT ![i] = @ + 1]

\* lines 110-148: one iteration of the retry loop up to the awaited request
BeginAttempt(c, rec) ==
    LET cl == getBestClient(requestCounts, errorCounts, lastRequestTimes, gnow)
    IN  /\ requestCounts' = updateRequestCount(requestCounts, cl)
        /\ calls' = [calls EXCEPT ![c] =
                       [rec EXCEPT !.pc = "await", !.client = cl, !.started = gnow,
                                   !.attempts = @ + 1]]
        /\ UNCHANGED <<errorCounts, lastRequestTimes>>

Backoff_Linear(attempt) == RetryDelay * (attempt + 1)

\* `config.gemini.retryDelay * Math.pow(2, attempt)` (line 189)
Backoff(attempt) == RetryDelay * Pow2(attempt)

\* lines 171-198: the catch block of the retry loop, and the throw after it
AttemptFailed(c, msg) ==
    LET cur == getBestClient(requestCounts, errorCounts, lastRequestTimes, gnow)
        r   == calls[c]
    IN  /\ genv.fails > 0
        /\ genv' = [genv EXCEPT !.fails = @ - 1]
        /\ errorCounts' = updateErrorCount(errorCounts, cur)
        /\ calls' = [calls EXCEPT ![c] =
                       IF ~isRetryableError(msg) /\ r.attempt = r.retries
                         THEN [r EXCEPT !.pc = "failed", !.lastError = msg,
                                        !.thrown = ExhaustedError(msg)]
                       ELSE IF r.attempt < r.retries
                         THEN [r EXCEPT !.pc = "sleep", !.lastError = msg,
                                        !.delay = Backoff(r.attempt),
                                        !.wakeAt = gnow + Backoff(r.attempt)]
                         ELSE [r EXCEPT !.pc = "failed", !.lastError = msg,
                                        !.thrown = ExhaustedError(msg)]]
        /\ UNCHANGED <<requestCounts, lastRequestTimes>>

\* generateContent(history, memorySummary, userMemory, maxRetries); the
\* second of two calls in flight is made without maxRetries, as
\* generateAIResponse makes it (chatbotService.js line 304)
generateContent(c, arg) ==
    /\ calls[c].pc = "idle"
    /\ genv.calls > 0
    /\ c # FirstCall => calls[FirstCall].pc # "idle" /\ arg = NullArg
    /\ BeginAttempt(c, [IdleCall EXCEPT !.arg = arg, !.retries = Retries(arg)])
    /\ genv' = [genv EXCEPT !.calls = @ - 1]
    /\ UNCHANGED gnow
    /\ UNCHANGED <<abandoned, dvars, svars, hvars>>

\* chat.sendMessage resolves with a response (lines 151-169)
backendAnswers(c, text) ==
    /\ calls[c].pc = "await"
    /\ IF IsEmptyResponse(text)
         THEN AttemptFailed(c, EmptyResponseError)
         ELSE /\ lastRequestTimes' = [lastRequestTimes EXCEPT ![calls[c].client] = gnow]
              /\ calls' = [calls EXCEPT ![c].pc = "done",
                                              ![c].result = ReturnValue(text)]
              /\ UNCHANGED <<requestCounts, errorCounts, genv>>
    /\ UNCHANGED gnow
    /\ UNCHANGED <<abandoned, dvars, svars, hvars>>

\* chat.sendMessage rejects
backendRejects(c, msg) ==
    /\ calls[c].pc = "await"
    /\ AttemptFailed(c, msg)
    /\ UNCHANGED gnow
    /\ UNCHANGED <<abandoned, dvars, svars, hvars>>

\* the timer of the Promise.race fires first (lines 145-147)
requestTimeout(c) ==
    /\ calls[c].pc = "await"
    /\ gnow >= calls[c].started + GeminiTimeout
    /\ AttemptFailed(c, TimeoutError)
    /\ abandoned' = abandoned \cup {[call |-> c, attempt |-> calls[c].attempt,
                                      client |-> calls[c].client]}
    /\ UNCHANGED gnow
    /\ UNCHANGED <<dvars, svars, hvars>>

LateResult_Returned(rec, text) == [rec EXCEPT !.pc = "done", !.result = text]

\* the race of lines 143-148 is settled once: a request that settles after
\* its timeout finds nobody awaiting it, and the call stays as it is
LateResult(rec, text) == rec

\* chat.sendMessage of an abandoned request resolves after all
lateCompletion(o, text) ==
    /\ o \in abandoned
    /\ genv.lates > 0
    /\ genv' = [genv EXCEPT !.lates = @ - 1]
    /\ abandoned' = abandoned \ {o}
    /\ calls' = [calls EXCEPT ![o.call] = LateResult(@, text)]
    /\ UNCHANGED <<requestCounts, errorCounts, lastRequestTimes, gnow>>
    /\ UNCHANGED <<dvars, svars, hvars>>

\* the backoff timer fires: attempt++ and the next iteration begins
retryWake(c) ==
    /\ calls[c].pc = "sleep"
    /\ gnow >= calls[c].wakeAt
    /\ BeginAttempt(c, [calls[c] EXCEPT !.attempt = @ + 1])
    /\ UNCHANGED <<gnow, genv>>
    /\ UNCHANGED <<abandoned, dvars, svars, hvars>>

\* the instants at which a pending timer is due
Deadlines ==
    {calls[c].wakeAt : c \in {d \in Calls : calls[d].pc = "sleep"}}
      \cup {calls[c].started + GeminiTimeout : c \in {d \in Calls : calls[d].pc = "await"}}

\* the clock moves on to the next instant at which some timer is due
GTick ==
    /\ genv.ticks > 0
    /\ \E t \in Deadlines : /\ t > gnow
                            /\ \A u \in Deadlines : u > gnow => t <= u
                            /\ gnow' = t
    /\ genv' = [genv EXCEPT !.ticks = @ - 1]
    /\ UNCHANGED <<requestCounts, errorCounts, lastRequestTimes, calls>>
    /\ UNCHANGED <<abandoned, dvars, svars, hvars>>

SoloEnv == [calls |-> 1, ticks |-> MaxGTicks, fails |-> MaxFails, lates |-> MaxLates]

DuoEnv == [calls |-> 2, ticks |-> DuoTicks, fails |-> DuoFails, lates |-> MaxLates]

GInit(e) ==
    /\ requestCounts = [i \in Clients |-> 0]
    /\ errorCounts = [i \in Clients |-> 0]
    /\ lastRequestTimes = [i \in Clients |-> 0]
    /\ calls = [c \in Calls |-> IdleCall]
    /\ gnow = IdleCapSeconds * 1000
    /\ genv = e
    /\ abandoned = {}

GNext ==
    \/ \E c \in Calls, arg \in Args : generateContent(c, arg)
    \/ \E c \in Calls, text \in ResponseTexts : backendAnswers(c, text)
    \/ \E c \in Calls, msg \in BackendErrors : backendRejects(c, msg)
    \/ \E c \in Calls : requestTimeout(c)
    \/ \E o \in abandoned, text \in ResponseTexts : lateCompletion(o, text)
    \/ \E c \in Calls : retryWake(c)
    \/ GTick

(***************************************************************************)
(* JsonDatabase (src/database/jsonDb.js): the conversation map, the        *)
(* debounced save, saveChatHistory with its temporary file, cleanup.       *)
(***************************************************************************)
\* The store's clock snow counts seconds: 31 days of milliseconds are more
\* than the integers of the model checker hold.  Every delay of the store is
\* a whole number of seconds.
Sec(ms) == ms \div 1000
DaySec == 86400
RetentionSec == RetentionDays * DaySec

Flushes == 1..MaxFlushes
LazyCalls == 1..MaxLazy
IdleLazy == [pc |-> "idle", sender |-> "none", n |-> 0]
Roles == {"user", "assistant"}
Undefined == 0 - 1

\* a sender the Map has no entry for
NoConversation == [has |-> FALSE, messages |-> <<>>, firstMessageTime |-> Undefined,
                   lastMessageTime |-> Undefined, messageCount |-> Undefined,
                   emotionalProfile |-> <<>>]

EmptyMap == [s \in Senders |-> NoConversation]

\* `this.chatHistory.set(senderId, {messages: [], metadata: {...}})` (lines 150-159)
NewConversation(t) == [has |-> TRUE, messages |-> <<>>, firstMessageTime |-> t,
                       lastMessageTime |-> t, messageCount |-> 0,
                       emotionalProfile |-> <<>>]

\* `array.slice(-n)` for n > 0
SliceLast_First(seq, n) == SubSeq(seq, 1, Min(n, Len(seq)))

SliceLast(seq, n) == IF Len(seq) <= n THEN seq ELSE SubSeq(seq, Len(seq) - n + 1, Len(seq))

TrimHistory_KeepOldest(msgs, max) == IF Len(msgs) > max THEN SubSeq(msgs, 1, max) ELSE msgs

\* lines 176-181: `messages.splice(0, messages.length - maxChatHistory)`
TrimHistory(msgs, max) ==
    IF Len(msgs) > max THEN SubSeq(msgs, Len(msgs) - max + 1, Len(msgs)) ELSE msgs

\* lines 161-181: the conversation after one more message
Appended(conv, n, role, t, max) ==
    LET c    == IF conv.has THEN conv ELSE NewConversation(t)
        msgs == Append(c.messages, [n |-> n, role |-> role, timestamp |-> t])
    IN  [c EXCEPT !.messages = TrimHistory(msgs, max),
                  !.lastMessageTime = t,
                  !.messageCount = Len(msgs)]

\* lines 288-310: the conversation after one more emotional record
WithEmotion(conv, t) ==
    LET c == IF conv.has THEN conv ELSE [NoConversation EXCEPT !.has = TRUE]
    IN  [c EXCEPT !.emotionalProfile = SliceLast(Append(@, t), EmotionCap)]

\* lines 222-232: the messages in Gemini format, the last maxContextSize of them
ContextOf(conv, max) ==
    LET context == [i \in 1..Len(conv.messages) |->
                       [role |-> IF conv.messages[i].role = "assistant"
                                   THEN "model" ELSE "user",
                        n |-> conv.messages[i].n,
                        timestamp |-> conv.messages[i].timestamp]]
    IN  SliceLast(context, Min(max, ContextCap))

\* `getConversationContext(senderId)`
getConversationContext(map, s, max) == IF ~map[s].has THEN <<>> ELSE ContextOf(map[s], max)

\* the properties the metadata object of a conversation has: a property that
\* was never assigned does not exist (an emotionalProfile that exists is not empty)
MetadataKeys(conv) ==
    {k \in {"firstMessageTime"} : conv.firstMessageTime # Undefined}
      \cup {k \in {"lastMessageTime"} : conv.lastMessageTime # Undefined}
      \cup {k \in {"messageCount"} : conv.messageCount # Undefined}
      \cup {k \in {"emotionalProfile"} : conv.emotionalProfile # <<>>}

MetadataValue(conv, k) ==
    CASE k = "firstMessageTime" -> conv.firstMessageTime
      [] k = "lastMessageTime" -> conv.lastMessageTime
      [] k = "messageCount" -> conv.messageCount
      [] k = "emotionalProfile" -> conv.emotionalProfile

\* `JSON.stringify(Object.fromEntries(this.chatHistory))`: one property per
\* sender the Map holds, whose value has the messages and the metadata object
\* with the properties it has
Serialize(map) ==
    {<<s, [messages |-> map[s].messages,
           metadata |-> [k \in MetadataKeys(map[s]) |-> MetadataValue(map[s], k)]]>> :
        s \in {x \in Senders : map[x].has}}

\* reading a property of a parsed object: undefined when it has none
Prop(obj, k, undef) == IF k \in DOMAIN obj THEN obj[k] ELSE undef

Parse_NoProfile(data) ==
    [s \in Senders |->
        IF \E e \in data : e[1] = s
          THEN LET v == (CHOOSE e \in data : e[1] = s)[2]
               IN  [has |-> TRUE, messages |-> v.messages,
                    firstMessageTime |-> Prop(v.metadata, "firstMessageTime", Undefined),
                    lastMessageTime |-> Prop(v.metadata, "lastMessageTime", Undefined),
                    messageCount |-> Prop(v.metadata, "messageCount", Undefined),
                    emotionalProfile |-> <<>>]
          ELSE NoConversation]

\* `new Map(Object.entries(JSON.parse(data)))`
Parse(data) ==
    [s \in Senders |->
        IF \E e \in data : e[1] = s
          THEN LET v == (CHOOSE e \in data : e[1] = s)[2]
               IN  [has |-> TRUE, messages |-> v.messages,
                    firstMessageTime |-> Prop(v.metadata, "firstMessageTime", Undefined),
                    lastMessageTime |-> Prop(v.metadata, "lastMessageTime", Undefined),
                    messageCount |-> Prop(v.metadata, "messageCount", Undefined),
                    emotionalProfile |-> Prop(v.metadata, "emotionalProfile", <<>>)]
          ELSE NoConversation]

\* A file is a name bound to a body; `writers` are the saveChatHistory
\* invocations whose fs.writeFile has opened that body and not yet finished.
\* A body is "complete" (one whole serialization), "partial" (truncated and
\* not yet written in full) or "corrupt" (bytes of two writers mixed).
NoFile == [exists |-> FALSE, state |-> "partial", data |-> {}, writers |-> {},
           torn |-> FALSE]

IdleFlush == [pc |-> "idle", kind |-> "none", data |-> {}, snap |-> EmptyMap,
              retryCount |-> 0, wakeAt |-> 0]

FreeFlush(f) ==
    /\ flushes[f].pc = "idle"
    /\ \A g \in Flushes : g < f => flushes[g].pc # "idle"

\* fs.writeFile opens with flag 'w': the file is created, or the existing
\* body is truncated under whoever is still writing it
OpenBody(body, f) ==
    [exists |-> TRUE, state |-> "partial", data |-> {},
     writers |-> (IF body.exists THEN body.writers ELSE {}) \cup {f},
     torn |-> body.exists /\ body.writers # {}]

OpenForWrite_InPlace(f) == [tmp |-> tmp, file |-> OpenBody(file, f)]

\* lines 96-98: the two files once `fs.writeFile(tempFile, ...)` has opened
OpenForWrite(f) == [tmp |-> OpenBody(tmp, f), file |-> file]

\* the body after writer f has written its last byte and closed
Written(body, f, data, mixed) ==
    [body EXCEPT !.state = IF body.torn /\ mixed THEN "corrupt" ELSE "complete",
                 !.data = IF body.torn /\ mixed THEN {} ELSE data,
                 !.writers = @ \ {f}]

\* the body after writer f has given up on an I/O error
Abandoned(body, f) == [body EXCEPT !.writers = @ \ {f}]

ClearTimeout_Noop(pending, h) == pending

\* `clearTimeout(this.saveTimeout)`
ClearTimeout(pending, h) == {t \in pending : t.h # h}

\* scheduleSave (lines 125-137): cancel the timer on record, start a new one
ScheduleSave ==
    /\ timers' = [next |-> timers.next + 1,
                  pending |-> (IF saveTimeout # 0
                                 THEN ClearTimeout(timers.pending, saveTimeout)
                                 ELSE timers.pending)
                              \cup {[h |-> timers.next, due |-> snow + Sec(QuietPeriodMs)]}]
    /\ saveTimeout' = timers.next

\* saveChatHistory lines 89-98 on the Map `map`: serialize it, call fs.writeFile
StartedOn(map, f, kind, retryCount) ==
    [flushes EXCEPT ![f] = [pc |-> "writing", kind |-> kind,
                            data |-> Serialize(map), snap |-> map,
                            retryCount |-> retryCount, wakeAt |-> 0]]

Started(f, kind, retryCount) == StartedOn(conversations, f, kind, retryCount)

Expired_AgeOnly(conv, cutoff) ==
    conv.lastMessageTime # Undefined /\ conv.lastMessageTime < cutoff

\* line 402: `lastMessageTime < cutoffDate && conversation.messages.length < 10`;
\* the Date of an absent lastMessageTime is invalid and compares false
Expired(conv, cutoff) ==
    /\ conv.lastMessageTime # Undefined
    /\ conv.lastMessageTime < cutoff
    /\ Len(conv.messages) < KeepThreshold

\* lines 410-412: `messages.filter(msg => new Date(msg.timestamp) > cutoffDate)`
FreshMessages(msgs, cutoff) == SelectSeq(msgs, LAMBDA m : m.timestamp > cutoff)

\* lines 395-414: the Map after the loop of performCleanup run at time t
Cleaned(map, t) ==
    [s \in Senders |->
        IF ~map[s].has THEN map[s]
        ELSE IF Expired(map[s], t - RetentionSec) THEN NoConversation
        ELSE [map[s] EXCEPT !.messages = FreshMessages(@, t - RetentionSec)]]

\* line 404: the conversations the loop of performCleanup deletes
CleanedConversations(map, t) ==
    Cardinality({s \in Senders : map[s].has /\ Expired(map[s], t - RetentionSec)})

\* line 413: the messages the loop filters out of the conversations it keeps
CleanedMessages(map, t) ==
    Cardinality(UNION {{<<s, i>> : i \in {j \in DOMAIN map[s].messages :
                                            ~(map[s].messages[j].timestamp > t - RetentionSec)}} :
                         s \in {x \in Senders :
                                  map[x].has /\ ~Expired(map[x], t - RetentionSec)}})

SavesAfterCleanup_DeletionsOnly(map, t) == CleanedConversations(map, t) > 0

\* line 416: `if (cleanedConversations > 0 || cleanedMessages > 0)`
SavesAfterCleanup(map, t) ==
    CleanedConversations(map, t) > 0 \/ CleanedMessages(map, t) > 0

\* another invocation is between its open of the temporary file and its rename
Overlaps(f) == \E g \in Flushes \ {f} : flushes[g].pc \in {"writing", "written"}

\* process.exit: nothing of the process is left to write
Exited(body) == [body EXCEPT !.writers = {}]

RetryWait_Constant(retryCount) == DbRetryDelay

\* `this.retryDelay * (retryCount + 1)` (line 112)
RetryWait(retryCount) == DbRetryDelay * (retryCount + 1)

\* What follows an fs call of invocation f that succeeded for good (rename) or
\* failed: the catch block of saveChatHistory (lines 109-119), the callers'
\* catch blocks (lines 132-134 and 485-487) and, after cleanup(), the rest of
\* shutdown() in index.js (lines 51-54).  tm and fi are the files after the call.
Conclude(f, failed, tm, fi) ==
    LET r     == flushes[f]
        final == ~failed \/ r.retryCount >= DbMaxRetries
        exits == final /\ r.kind = "shutdown"
    IN  /\ flushes' = IF exits THEN [g \in Flushes |-> IdleFlush]
                      ELSE [flushes EXCEPT ![f] =
                              IF final THEN IdleFlush
                              ELSE [r EXCEPT !.pc = "wait",
                                             !.wakeAt = snow + Sec(RetryWait(r.retryCount))]]
        /\ tmp' = IF exits THEN Exited(tm) ELSE tm
        /\ file' = IF exits THEN Exited(fi) ELSE fi
        /\ phase' = IF exits THEN "down" ELSE phase
        /\ timers' = IF exits THEN [timers EXCEPT !.pending = {}] ELSE timers
        /\ intervals' = IF exits THEN {} ELSE intervals
        /\ obs' = [obs EXCEPT
                     !.cleanupResult = IF exits THEN "returned" ELSE @,
                     !.pendingAtReturn = IF exits THEN timers.pending ELSE @,
                     !.shutdownFlushFailed = @ \/ (exits /\ failed),
                     !.backgroundFailed = @ \/ (final /\ failed /\ r.kind = "debounced"),
                     !.lastFlushed = IF failed THEN @ ELSE r.snap]

\* initialize (lines 24-38) with loadChatHistory (lines 56-83)
initialize ==
    /\ phase = "new"
    /\ IF file.exists /\ file.state # "complete"
         THEN /\ phase' = "dead"          \* JSON.parse throws, startup fails
              /\ UNCHANGED <<conversations, isInitialized, intervals>>
         ELSE /\ phase' = "up"
              /\ conversations' = IF file.exists THEN Parse(file.data) ELSE EmptyMap
              /\ isInitialized' = TRUE
              /\ intervals' = intervals \cup {[h |-> Cardinality(intervals) + 1,
                                                due |-> snow + Sec(CleanupIntervalMs)]}
    /\ obs' = [obs EXCEPT !.loaded = conversations', !.expected = obs.lastFlushed]
    /\ UNCHANGED <<saveTimeout, timers, flushes, file, tmp, snow, senv>>
    /\ UNCHANGED <<lazy, dvars, gvars, hvars>>

\* addMessage (lines 142-209); the turns of a conversation come in as the
\* dispatcher appends them, a user turn and then the assistant's
addMessage(s, role) ==
    /\ phase = "up"
    /\ isInitialized
    /\ senv.appends[s] > 0
    /\ role = (IF obs.appended[s] % 2 = 0 THEN "user" ELSE "assistant")
    /\ conversations' = [conversations EXCEPT ![s] =
                            Appended(@, obs.appended[s] + 1, role, snow, senv.maxChatHistory)]
    /\ ScheduleSave
    /\ senv' = [senv EXCEPT !.appends[s] = @ - 1]
    /\ obs' = [obs EXCEPT !.appended[s] = @ + 1, !.lastMutation = snow, !.dirty = TRUE]
    /\ UNCHANGED <<isInitialized, intervals, flushes, file, tmp, phase, snow>>
    /\ UNCHANGED <<lazy, dvars, gvars, hvars>>

\* storeEmotionalContext (lines 288-313)
storeEmotionalContext(s) ==
    /\ phase = "up"
    /\ senv.emotions > 0
    /\ conversations' = [conversations EXCEPT ![s] = WithEmotion(@, snow)]
    /\ ScheduleSave
    /\ senv' = [senv EXCEPT !.emotions = @ - 1]
    /\ obs' = [obs EXCEPT !.lastMutation = snow, !.dirty = TRUE]
    /\ UNCHANGED <<isInitialized, intervals, flushes, file, tmp, phase, snow>>
    /\ UNCHANGED <<lazy, dvars, gvars, hvars>>

\* getConversationContext (lines 214-238)
getContext(s) ==
    /\ phase = "up"
    /\ senv.reads > 0
    /\ senv' = [senv EXCEPT !.reads = @ - 1]
    /\ obs' = [obs EXCEPT !.readOf = s, !.readFrom = conversations[s],
                          !.context = getConversationContext(conversations, s,
                                                             senv.maxChatHistory)]
    /\ UNCHANGED <<conversations, isInitialized, saveTimeout, timers, intervals, flushes,
                   file, tmp, phase, snow>>
    /\ UNCHANGED <<lazy, dvars, gvars, hvars>>

\* the timer of scheduleSave fires (lines 130-136): saveChatHistory() begins
saveTimerFires(t, f) ==
    /\ phase = "up"
    /\ t \in timers.pending
    /\ snow >= t.due
    /\ FreeFlush(f)
    /\ timers' = [timers EXCEPT !.pending = @ \ {t}]
    /\ flushes' = Started(f, "debounced", 0)
    /\ tmp' = OpenForWrite(f).tmp
    /\ file' = OpenForWrite(f).file
    /\ obs' = [obs EXCEPT !.dirty = FALSE, !.overlap = @ \/ Overlaps(f)]
    /\ UNCHANGED <<conversations, isInitialized, saveTimeout, intervals, phase, snow, senv>>
    /\ UNCHANGED <<lazy, dvars, gvars, hvars>>

\* fs.writeFile of invocation f settles (line 98)
writeDone(f, ok, mixed) ==
    LET r  == flushes[f]
        tm == IF f \in tmp.writers
                THEN (IF ok THEN Written(tmp, f, r.data, mixed) ELSE Abandoned(tmp, f))
                ELSE tmp
        fi == IF f \in file.writers
                THEN (IF ok THEN Written(file, f, r.data, mixed) ELSE Abandoned(file, f))
                ELSE file
    IN  /\ phase = "up"
        /\ r.pc = "writing"
        /\ mixed => /\ ok
                    /\ \/ f \in tmp.writers /\ tmp.torn
                       \/ f \in file.writers /\ file.torn
        /\ IF ok
             THEN /\ flushes' = [flushes EXCEPT ![f].pc = "written"]
                  /\ tmp' = tm
                  /\ file' = fi
                  /\ UNCHANGED <<phase, timers, intervals, obs, senv>>
             ELSE /\ senv.faults > 0
                  /\ senv' = [senv EXCEPT !.faults = @ - 1]
                  /\ Conclude(f, TRUE, tm, fi)
        /\ UNCHANGED <<conversations, isInitialized, saveTimeout, snow>>
        /\ UNCHANGED <<lazy, dvars, gvars, hvars>>

\* fs.rename(tempFile, this.chatHistoryFile) of invocation f settles (line 99)
renameTmp(f, ok) ==
    /\ phase = "up"
    /\ flushes[f].pc = "written"
    /\ IF ok
         THEN IF tmp.exists
                THEN Conclude(f, FALSE, NoFile, tmp) /\ UNCHANGED senv
                ELSE Conclude(f, TRUE, tmp, file) /\ UNCHANGED senv    \* ENOENT
         ELSE /\ senv.faults > 0
              /\ senv' = [senv EXCEPT !.faults = @ - 1]
              /\ Conclude(f, TRUE, tmp, file)
    /\ UNCHANGED <<conversations, isInitialized, saveTimeout, snow>>
    /\ UNCHANGED <<lazy, dvars, gvars, hvars>>

\* the backoff of the catch block is over: saveChatHistory(retryCount + 1)
retrySave(f) ==
    /\ phase = "up"
    /\ flushes[f].pc = "wait"
    /\ snow >= flushes[f].wakeAt
    /\ flushes' = Started(f, flushes[f].kind, flushes[f].retryCount + 1)
    /\ tmp' = OpenForWrite(f).tmp
    /\ file' = OpenForWrite(f).file
    /\ obs' = [obs EXCEPT !.overlap = @ \/ Overlaps(f)]
    /\ UNCHANGED <<conversations, isInitialized, saveTimeout, timers, intervals, phase,
                   snow, senv>>
    /\ UNCHANGED <<lazy, dvars, gvars, hvars>>

\* cleanup (lines 470-488), awaited by shutdown() in index.js
cleanup(f) ==
    LET pend == IF saveTimeout # 0 THEN ClearTimeout(timers.pending, saveTimeout)
                                  ELSE timers.pending
    IN  /\ phase = "up"
        /\ senv.shutdowns > 0
        /\ senv' = [senv EXCEPT !.shutdowns = @ - 1]
        /\ saveTimeout' = 0
        /\ IF isInitialized /\ \E s \in Senders : conversations[s].has
             THEN /\ FreeFlush(f)
                  /\ flushes' = Started(f, "shutdown", 0)
                  /\ tmp' = OpenForWrite(f).tmp
                  /\ file' = OpenForWrite(f).file
                  /\ timers' = [timers EXCEPT !.pending = pend]
                  /\ obs' = [obs EXCEPT !.dirty = FALSE, !.overlap = @ \/ Overlaps(f)]
                  /\ UNCHANGED <<phase, intervals>>
             ELSE /\ f = 1
                  /\ flushes' = [g \in Flushes |-> IdleFlush]
                  /\ tmp' = Exited(tmp)
                  /\ file' = Exited(file)
                  /\ timers' = [timers EXCEPT !.pending = {}]
                  /\ intervals' = {}
                  /\ phase' = "down"
                  /\ obs' = [obs EXCEPT !.dirty = FALSE, !.cleanupResult = "returned",
                                        !.pendingAtReturn = pend]
        /\ UNCHANGED <<conversations, isInitialized, snow>>
        /\ UNCHANGED <<lazy, dvars, gvars, hvars>>

\* the process is stopped where it stands and started again
Crash ==
    /\ phase = "up"
    /\ senv.crashes > 0
    /\ senv' = [senv EXCEPT !.crashes = @ - 1]
    /\ phase' = "new"
    /\ conversations' = EmptyMap
    /\ isInitialized' = FALSE
    /\ saveTimeout' = 0
    /\ timers' = [timers EXCEPT !.pending = {}]
    /\ intervals' = {}
    /\ flushes' = [g \in Flushes |-> IdleFlush]
    /\ tmp' = Exited(tmp)
    /\ file' = Exited(file)
    /\ obs' = [obs EXCEPT !.dirty = FALSE, !.crashed = TRUE]
    /\ UNCHANGED snow
    /\ UNCHANGED <<lazy, dvars, gvars, hvars>>

\* the callback of startPeriodicCleanup's setInterval (lines 381-383) runs
\* performCleanup (lines 389-431) up to the fs.writeFile of its save
performCleanup(i, f) ==
    LET after == Cleaned(conversations, snow)
    IN  /\ phase = "up"
        /\ i \in intervals
        /\ snow >= i.due
        /\ senv.cycles > 0
        /\ senv' = [senv EXCEPT !.cycles = @ - 1]
        /\ intervals' = (intervals \ {i}) \cup {[i EXCEPT !.due = @ + Sec(CleanupIntervalMs)]}
        /\ conversations' = after
        /\ IF SavesAfterCleanup(conversations, snow)
             THEN /\ FreeFlush(f)
                  /\ flushes' = StartedOn(after, f, "cleanup", 0)
                  /\ tmp' = OpenForWrite(f).tmp
                  /\ file' = OpenForWrite(f).file
                  /\ obs' = [obs EXCEPT !.overlap = @ \/ Overlaps(f),
                                        !.cleaned = @ \/ after # conversations,
                                        !.cycles = @ + 1, !.before = conversations]
             ELSE /\ f = 1
                  /\ UNCHANGED <<flushes, tmp, file>>
                  /\ obs' = [obs EXCEPT !.cleaned = @ \/ after # conversations,
                                        !.cycles = @ + 1, !.before = conversations]
        /\ UNCHANGED <<isInitialized, saveTimeout, timers, phase, snow>>
        /\ UNCHANGED <<lazy, dvars, gvars, hvars>>

\* addMessage is called while isInitialized is false: it calls initialize(),
\* which awaits the read of the durable file (lines 143-145, 24-27, 59)
addMessageUninitialized(c, s) ==
    /\ phase = "new"
    /\ lazy.calls[c].pc = "idle"
    /\ \A d \in LazyCalls : d < c => lazy.calls[d].pc # "idle"
    /\ ~isInitialized
    /\ lazy' = [lazy EXCEPT !.calls[c] = [pc |-> "loading", sender |-> s, n |-> 0]]
    /\ UNCHANGED <<conversations, isInitialized, saveTimeout, timers, intervals, flushes,
                   file, tmp, phase, snow, senv, obs>>
    /\ UNCHANGED <<dvars, gvars, hvars>>

\* the read of call c's initialize() resolves: loadChatHistory replaces the
\* Map, initialize() sets the flag and starts a cleanup interval (lines 59-62, 28-31)
lazyInitialized(c) ==
    /\ lazy.calls[c].pc = "loading"
    /\ IF file.exists /\ file.state # "complete"
         THEN /\ lazy' = [lazy EXCEPT !.calls[c].pc = "failed"]
              /\ UNCHANGED <<conversations, isInitialized, intervals, phase, obs>>
         ELSE /\ conversations' = IF file.exists THEN Parse(file.data) ELSE EmptyMap
              /\ isInitialized' = TRUE
              /\ intervals' = intervals \cup {[h |-> Cardinality(intervals) + 1,
                                                due |-> snow + Sec(CleanupIntervalMs)]}
              /\ phase' = "up"
              /\ lazy' = [lazy EXCEPT !.calls[c].pc = "ready", !.loads = @ + 1]
              /\ obs' = [obs EXCEPT !.loaded = conversations']
    /\ UNCHANGED <<saveTimeout, timers, flushes, file, tmp, snow, senv>>
    /\ UNCHANGED <<dvars, gvars, hvars>>

\* call c resumes after `await this.initialize()` and appends its turn (lines 147-209)
lazyAppend(c) ==
    LET s == lazy.calls[c].sender
        n == Len(conversations[s].messages) + c
    IN  /\ lazy.calls[c].pc = "ready"
        /\ conversations' = [conversations EXCEPT ![s] =
                                Appended(@, n, "user", snow, senv.maxChatHistory)]
        /\ ScheduleSave
        /\ lazy' = [lazy EXCEPT !.calls[c].pc = "done", !.calls[c].n = n]
        /\ obs' = [obs EXCEPT !.appended[s] = @ + 1, !.lastMutation = snow, !.dirty = TRUE]
        /\ UNCHANGED <<isInitialized, intervals, flushes, file, tmp, phase, snow, senv>>
        /\ UNCHANGED <<dvars, gvars, hvars>>

\* the instants at which a timer of the store is due
StoreDeadlines ==
    {t.due : t \in timers.pending}
      \cup {flushes[f].wakeAt : f \in {g \in Flushes : flushes[g].pc = "wait"}}
      \cup {i.due : i \in {j \in intervals : senv.cycles > 0}}

\* the environment has a mutation of the Map left to make
MutationsLeft == senv.emotions > 0 \/ \E s \in Senders : senv.appends[s] > 0

\* the clock moves on to the next instant a timer is due or, while a save is
\* scheduled and a mutation may still come, by a short step
STick ==
    /\ phase = "up"
    /\ senv.ticks > 0
    /\ \E t \in StoreDeadlines
               \cup {snow + Sec(StepMs) : x \in {y \in timers.pending : MutationsLeft}} :
          /\ t > snow
          /\ \A u \in StoreDeadlines : u > snow => t <= u
          /\ snow' = t
    /\ senv' = [senv EXCEPT !.ticks = @ - 1]
    /\ UNCHANGED <<conversations, isInitialized, saveTimeout, timers, intervals, flushes,
                   file, tmp, phase, obs>>
    /\ UNCHANGED <<lazy, dvars, gvars, hvars>>

\* one sender's conversation under mutations and the debounced save
StoreGeneralEnv ==
    [appends |-> [s \in Senders |-> IF s = BurstSender THEN MaxAppends ELSE 0],
     emotions |-> MaxEmotions, faults |-> 0, ticks |-> StoreTicks, crashes |-> 0,
     shutdowns |-> 0, reads |-> 0, cycles |-> 0, maxChatHistory |-> SmallHistory]

\* a long conversation and its reader
StoreBulkEnv ==
    [appends |-> [s \in Senders |-> IF s = BurstSender THEN WideHistory + BulkExtra ELSE 0],
     emotions |-> 0, faults |-> 0, ticks |-> 0, crashes |-> 0, shutdowns |-> 0,
     reads |-> MaxReads, cycles |-> 0, maxChatHistory |-> WideHistory]

\* two senders, a failing fs call, the process stopped and started again
StoreCrashEnv ==
    [appends |-> [s \in Senders |-> FaultAppends],
     emotions |-> 0, faults |-> MaxIoFaults, ticks |-> StoreTicks, crashes |-> MaxCrashes,
     shutdowns |-> 0, reads |-> 0, cycles |-> 0, maxChatHistory |-> SmallHistory]

\* shutdown() while the disk keeps failing
StoreShutdownEnv ==
    [appends |-> [s \in Senders |-> IF s = BurstSender THEN FaultAppends ELSE 0],
     emotions |-> 0, faults |-> ShutdownFaults, ticks |-> ShutdownTicks, crashes |-> 0,
     shutdowns |-> 1, reads |-> 0, cycles |-> 0, maxChatHistory |-> SmallHistory]

\* the disk fails while a debounced save runs, and long after
StoreOutageEnv ==
    [appends |-> [s \in Senders |-> IF s = BurstSender THEN FaultAppends ELSE 0],
     emotions |-> 0, faults |-> OutageFaults, ticks |-> OutageTicks, crashes |-> 0,
     shutdowns |-> 0, reads |-> 0, cycles |-> 1, maxChatHistory |-> SmallHistory]

\* shutdown() while the sender's conversation still grows
StoreDrainEnv ==
    [appends |-> [s \in Senders |-> IF s = BurstSender THEN DrainAppends ELSE 0],
     emotions |-> 0, faults |-> 0, ticks |-> 1, crashes |-> 0,
     shutdowns |-> 1, reads |-> 0, cycles |-> 0, maxChatHistory |-> SmallHistory]

\* the process starts on the file an earlier run left, a day at most before
\* the oldest conversations in it become 31 days old
StoreRetentionEnv ==
    [appends |-> [s \in Senders |-> 0],
     emotions |-> 0, faults |-> 0, ticks |-> MaxCycles, crashes |-> 0,
     shutdowns |-> 0, reads |-> 0, cycles |-> MaxCycles, maxChatHistory |-> ContextCap]

\* the conversation an earlier run built with k addMessage calls at time t
RECURSIVE Grown(_, _, _)
Grown(k, t, max) ==
    IF k = 0 THEN NoConversation
    ELSE Appended(Grown(k - 1, t, max), k,
                  IF k % 2 = 1 THEN "user" ELSE "assistant", t, max)

\* the start of the retention environment: the first cleanup runs 31 days after time 0
RetentionStart == 31 * DaySec - Sec(CleanupIntervalMs)

\* the conversations the retention environment finds on disk: short or long,
\* last touched 31 days, 30 days or a day before the first cleanup
OnDisk ==
    {NoConversation} \cup
    {Grown(k, t, ContextCap) :
        k \in {FewTurns, KeepThreshold - 1, KeepThreshold, ManyTurns},
        t \in {0, DaySec, RetentionStart - DaySec}}

\* the state before initialize() of a process that finds the Map `disk` in
\* the durable file (no file when the Map is empty) at time t
SInitOn(e, disk, t) ==
    /\ conversations = EmptyMap
    /\ isInitialized = FALSE
    /\ saveTimeout = 0
    /\ timers = [next |-> 1, pending |-> {}]
    /\ intervals = {}
    /\ flushes = [f \in Flushes |-> IdleFlush]
    /\ file = IF disk = EmptyMap THEN NoFile
               ELSE [exists |-> TRUE, state |-> "complete", data |-> Serialize(disk),
                     writers |-> {}, torn |-> FALSE]
    /\ tmp = NoFile
    /\ phase = "new"
    /\ snow = t
    /\ senv = e
    /\ lazy = [calls |-> [c \in LazyCalls |-> IdleLazy], loads |-> 0]
    /\ obs = [appended |-> [s \in Senders |-> 0], lastMutation |-> 0, dirty |-> FALSE,
              overlap |-> FALSE, crashed |-> disk # EmptyMap, lastFlushed |-> disk,
              cleanupResult |-> "none", shutdownFlushFailed |-> FALSE,
              backgroundFailed |-> FALSE, readOf |-> "none",
              readFrom |-> NoConversation, context |-> <<>>, loaded |-> EmptyMap,
              expected |-> EmptyMap, pendingAtReturn |-> {}, cleaned |-> FALSE,
              cycles |-> 0, before |-> EmptyMap]

SInit(e) == SInitOn(e, EmptyMap, 0)

SNext ==
    \/ initialize
    \/ \E s \in Senders, role \in Roles : addMessage(s, role)
    \/ \E s \in Senders : storeEmotionalContext(s)
    \/ \E s \in Senders : getContext(s)
    \/ \E t \in timers.pending, f \in Flushes : saveTimerFires(t, f)
    \/ \E f \in Flushes, ok \in BOOLEAN, mixed \in BOOLEAN : writeDone(f, ok, mixed)
    \/ \E f \in Flushes, ok \in BOOLEAN : renameTmp(f, ok)
    \/ \E f \in Flushes : retrySave(f)
    \/ \E f \in Flushes : cleanup(f)
    \/ \E i \in intervals, f \in Flushes : performCleanup(i, f)
    \/ Crash
    \/ STick

(***************************************************************************)
(* Initial states and specification.                                       *)
(***************************************************************************)
GeneralEnv == [budget |-> [s \in Senders |->
                              IF s = BurstSender THEN MaxSubmit ELSE OtherSubmit],
               faults |-> MaxFaults, skips |-> MaxSkips, ticks |-> MaxTicks, settles |-> 0,
               cleanups |-> 0]

BurstEnv == [budget |-> [s \in Senders |-> IF s = BurstSender THEN MaxBurst ELSE 0],
             faults |-> 0, skips |-> 0, ticks |-> BurstTicks, settles |-> 0, cleanups |-> 0]

\* one sender whose background subtasks settle, or never do
ContentEnv == [budget |-> [s \in Senders |-> IF s = BurstSender THEN ContentSubmit ELSE 0],
               faults |-> MaxFaults, skips |-> 0, ticks |-> ContentTicks,
               settles |-> MaxSettles, cleanups |-> 0]

\* one sender, and cleanup() of the service called at any moment
CleanupEnv == [budget |-> [s \in Senders |-> IF s = BurstSender THEN CleanupSubmit ELSE 0],
               faults |-> MaxFaults, skips |-> 0, ticks |-> ContentTicks,
               settles |-> MaxCleanups, cleanups |-> MaxCleanups]

DInit(e) ==
    /\ messageQueue = [s \in Senders |-> <<>>]
    /\ processingMessages = {}
    /\ rateLimiter = [s \in Senders |-> NoEntry]
    /\ workers = [s \in Senders |-> [k \in Slots |-> FreeWorker]]
    /\ chatHistory = [s \in Senders |-> <<>>]
    /\ isConnected = TRUE
    /\ now = 0
    /\ env = e
    /\ submitted = [s \in Senders |-> 0]
    /\ dequeued = [s \in Senders |-> 0]
    /\ backendLog = [s \in Senders |-> <<>>]
    /\ win = [s \in Senders |-> [start |-> 0, checked |-> 0, passed |-> 0]]
    /\ dropped = [s \in Senders |-> 0]
    /\ background = [s \in Senders |-> NoBackground]
    /\ cleanedAt = [ran |-> FALSE, submitted |-> [s \in Senders |-> 0],
                    dequeued |-> [s \in Senders |-> 0]]

(***************************************************************************)
(* Health check utility: healthCheck.js.                                   *)
(***************************************************************************)

\* lines 23-29: the checks, in the order the Map holds them
Checks == <<"whatsapp_connection", "gemini_api", "memory_usage",
            "performance_metrics", "configuration">>

CheckNames == {Checks[i] : i \in DOMAIN Checks}

\* lines 87-222: the statuses each check function can return; none of the
\* five throws, "threw" is the catch block of runHealthChecks (lines 70-78)
CheckOutcomes(name) ==
    CASE name = "whatsapp_connection" -> {"healthy", "warning", "critical"}
      [] name = "gemini_api"          -> {"healthy", "critical"}
      [] name = "memory_usage"        -> {"healthy", "warning", "critical"}
      [] name = "performance_metrics" -> {"healthy", "warning"}
      [] name = "configuration"       -> {"healthy", "warning"}

\* lines 35-46: the results object runHealthChecks starts from
NewResults ==
    [overall_status |-> "healthy",
     checks  |-> [name \in CheckNames |-> "none"],
     summary |-> [total |-> Len(Checks), passed |-> 0, failed |-> 0, warnings |-> 0]]

\* lines 50-79: one iteration of the loop, the check having ended with st
Tallied(results, name, st) ==
    CASE st = "healthy" ->
            [results EXCEPT !.checks[name] = st, !.summary.passed = @ + 1]
      [] st = "warning" ->
            [results EXCEPT !.checks[name] = st, !.summary.warnings = @ + 1,
                            !.overall_status = "warning"]
      [] st \in {"critical", "threw"} ->
            [results EXCEPT !.checks[name] = "critical", !.summary.failed = @ + 1,
                            !.overall_status = "critical"]

NoExit == -1

\* the utility is not run
HQuiet ==
    health = [pc |-> "off", outcome |-> [name \in CheckNames |-> "healthy"], i |-> 0,
              results |-> NewResults, exitCode |-> NoExit]

\* the utility starts; what each check will find is the environment's choice
HInit ==
    \E o \in [CheckNames -> {"healthy", "warning", "critical"}] :
        /\ \A name \in CheckNames : o[name] \in CheckOutcomes(name)
        /\ health = [pc |-> "running", outcome |-> o, i |-> 0,
                     results |-> NewResults, exitCode |-> NoExit]

\* lines 50-82: the next check is awaited and tallied; after the last one
\* runHealthChecks returns the results
runCheck ==
    LET name == Checks[health.i + 1]
    IN  /\ health.pc = "running"
        /\ health.i < Len(Checks)
        /\ health' = [health EXCEPT
                        !.i = @ + 1,
                        !.results = Tallied(@, name, health.outcome[name]),
                        !.pc = IF health.i + 1 = Len(Checks) THEN "returned" ELSE "running"]
        /\ UNCHANGED <<dvars, gvars, svars>>

\* lines 243-250: the command line prints the report and exits
exitProcess ==
    /\ health.pc = "returned"
    /\ health' = [health EXCEPT
                    !.pc = "exited",
                    !.exitCode = IF health.results.overall_status = "critical" THEN 1 ELSE 0]
    /\ UNCHANGED <<dvars, gvars, svars>>


Init ==
    /\ GInit(SoloEnv)
    /\ SInit(StoreGeneralEnv)
    /\ \E e \in {GeneralEnv, BurstEnv, ContentEnv} : DInit(e) /\ HQuiet

Next ==
    \/ \E s \in Senders, skip \in BOOLEAN : queueMessage(s, skip)
    \/ \E s \in Senders, k \in Slots : processQueue(s, k)
    \/ \E s \in Senders, k \in Slots : processQueueCatch(s, k)
    \/ \E s \in Senders, t \in Subtasks, out \in {"done", "failed"} : subtaskSettles(s, t, out)
    \/ \E s \in Senders, k \in Slots : assembleContent(s, k)
    \/ \E s \in Senders, k \in Slots, ok \in BOOLEAN : addUserMessage(s, k, ok)
    \/ \E s \in Senders, k \in Slots : invokeBackend(s, k)
    \/ \E s \in Senders, k \in Slots, g \in BOOLEAN, st \in BOOLEAN : backendReturn(s, k, g, st)
    \/ \E s \in Senders, k \in Slots, f \in {0, SendMaxRetries} : sendReply(s, k, f)
    \/ \E s \in Senders, k \in Slots, f \in {0, SendMaxRetries} : sendApology(s, k, f)
    \/ Disconnect
    \/ Reconnect
    \/ Tick

Spec == Init /\ [][Next]_vars

\* the dispatcher with its cleanup() called: nothing in the repository calls
\* it, so it is no step of Spec
CleanupInit == GInit(SoloEnv) /\ SInit(StoreGeneralEnv) /\ DInit(CleanupEnv) /\ HQuiet

CleanupNext == Next \/ chatbotCleanup

SpecCleanup == CleanupInit /\ [][CleanupNext]_vars

GeminiInit ==
    DInit(GeneralEnv) /\ HQuiet /\ SInit(StoreGeneralEnv) /\ \E e \in {SoloEnv, DuoEnv} : GInit(e)

SpecGemini == GeminiInit /\ [][GNext]_vars

StoreInit ==
    /\ DInit(GeneralEnv) /\ HQuiet
    /\ GInit(SoloEnv)
    /\ \/ \E e \in {StoreGeneralEnv, StoreBulkEnv, StoreCrashEnv, StoreShutdownEnv,
                   StoreOutageEnv, StoreDrainEnv} : SInit(e)
       \/ \E a \in OnDisk, b \in OnDisk :
              SInitOn(StoreRetentionEnv,
                      [s \in Senders |-> IF s = BurstSender THEN a ELSE b], RetentionStart)

SpecStore == StoreInit /\ [][SNext]_vars

\* a process whose first addMessage calls come before initialize() was
\* called (index.js awaits initialize() first, line 126): no file, or the
\* file of a short conversation
StoreLazyEnv ==
    [appends |-> [s \in Senders |-> 0],
     emotions |-> 0, faults |-> 0, ticks |-> LazyTicks, crashes |-> 0,
     shutdowns |-> 0, reads |-> 0, cycles |-> 0, maxChatHistory |-> ContextCap]

LazyInit ==
    /\ DInit(GeneralEnv) /\ HQuiet
    /\ GInit(SoloEnv)
    /\ \E a \in {NoConversation, Grown(FewTurns, 0, ContextCap)} :
          SInitOn(StoreLazyEnv, [s \in Senders |-> IF s = BurstSender THEN a
                                                   ELSE NoConversation], DaySec)

LazyNext ==
    \/ \E c \in LazyCalls, s \in Senders : addMessageUninitialized(c, s)
    \/ \E c \in LazyCalls : lazyInitialized(c)
    \/ \E c \in LazyCalls : lazyAppend(c)
    \/ \E t \in timers.pending, f \in Flushes : saveTimerFires(t, f)
    \/ \E f \in Flushes : writeDone(f, TRUE, FALSE)
    \/ \E f \in Flushes : renameTmp(f, TRUE)
    \/ STick

SpecLazy == LazyInit /\ [][LazyNext]_vars

\* what the process does by itself: a timer that is due fires, an fs call
\* settles, time passes
StoreProgress ==
    \/ initialize
    \/ \E t \in timers.pending, f \in Flushes : saveTimerFires(t, f)
    \/ \E f \in Flushes, ok \in BOOLEAN, mixed \in BOOLEAN : writeDone(f, ok, mixed)
    \/ \E f \in Flushes, ok \in BOOLEAN : renameTmp(f, ok)
    \/ \E f \in Flushes : retrySave(f)
    \/ \E i \in intervals, f \in Flushes : performCleanup(i, f)
    \/ STick

SpecStoreFair == StoreInit /\ [][SNext]_vars /\ WF_vars(StoreProgress)

(***************************************************************************)
(* Properties of the dispatcher.                                           *)
(***************************************************************************)
Increasing(seq) == \A i, j \in 1..Len(seq) : i < j => seq[i] < seq[j]

UserTurnIds(s) == [i \in 1..Len(UserTurns(s)) |-> UserTurns(s)[i][2]]

InHandler == {"assemble", "content", "stored", "generate", "send", "catch"}

Suspended(s) == \E k \in Slots : workers[s][k].pc \in InHandler

\* the next step of worker k of sender s when nothing fails
StepOf(s, k) ==
    \/ processQueue(s, k)
    \/ processQueueCatch(s, k)
    \/ assembleContent(s, k)
    \/ addUserMessage(s, k, TRUE)
    \/ invokeBackend(s, k)
    \/ backendReturn(s, k, TRUE, TRUE)
    \/ sendReply(s, k, 0)
    \/ sendApology(s, k, 0)

\* C1: in every reachable state each sender has at most one active
\* _processQueue worker, so at most one of its events is being handled.
C1_AtMostOneWorker == \A s \in Senders : Cardinality(Active(s)) <= 1

\* a submit arrived while the sender's worker was handling an earlier event
C1_Witness ==
    \E s \in Senders : /\ Cardinality(Active(s)) = 1
                       /\ Suspended(s)
                       /\ Len(messageQueue[s]) >= 1

\* C2: no submitted event is stranded: a non-empty pending queue always has
\* exactly one active worker, and every submitted event is either still
\* pending or has been dequeued by the worker.
C2_NoEventStranded ==
    \A s \in Senders :
        /\ Len(messageQueue[s]) > 0 => Cardinality(Active(s)) = 1
        /\ submitted[s] = dequeued[s] + Len(messageQueue[s])

\* C3: for each sender the user turns are appended to the store, and the
\* backend is invoked, in submission order (event ids are submission indices).
C3_FifoOrder ==
    \A s \in Senders : /\ Increasing(UserTurnIds(s))
                       /\ Increasing(backendLog[s])
                       /\ \A i \in 1..Len(backendLog[s]) : backendLog[s][i] <= submitted[s]

\* three events of one sender were stored and sent to the backend
C3_Witness ==
    \E s \in Senders : /\ Len(UserTurnIds(s)) >= 3
                       /\ Len(backendLog[s]) >= 3

\* C4: when the handling of an event has failed, the worker goes on with the
\* events still queued: it ends only when the queue is empty.
C4_WorkerContinuesAfterFailure ==
    [][\A s \in Senders, k \in Slots :
          (/\ workers[s][k].failed
           /\ workers[s][k].pc \in {"catch", "thrown"}
           /\ workers'[s][k].pc \notin {"catch", "thrown"})
          => (workers'[s][k].pc # "free" \/ Len(messageQueue[s]) = 0)]_vars

\* C5: inside one window of 60 s (opened by the first check of a sender or by
\* the first check after the previous window's reset time) exactly the first
\* 10 checked events pass and later ones are dropped; the count held by the
\* limiter is the number passed in the window, which ends 60 s after it opened.
C5_RateWindow ==
    \A s \in Senders :
        rateLimiter[s].has =>
            /\ win[s].passed = Min(win[s].checked, RateLimitMax)
            /\ rateLimiter[s].count = win[s].passed
            /\ rateLimiter[s].resetTime = win[s].start + RateWindowMs

\* an event was dropped, and after the reset time a new window lets events pass
C5_Witness ==
    \E s \in Senders : /\ dropped[s] >= 1
                       /\ win[s].start > 0
                       /\ win[s].passed >= 1
                       /\ rateLimiter[s].count = 1

\* C6: the step that drops a rate-limited event leaves the limiter, the store
\* and the backend log as they were, does not put the event back in the
\* queue, sends nothing, and returns the worker to its loop.
C6_DropHasNoEffect ==
    [][\A s \in Senders :
          dropped'[s] > dropped[s] =>
            /\ rateLimiter'[s] = rateLimiter[s]
            /\ chatHistory' = chatHistory
            /\ backendLog' = backendLog
            /\ dequeued'[s] = dequeued[s] + 1
            /\ \E k \in Slots :
                 /\ workers'[s][k].pc = "loop"
                 /\ workers'[s][k].apologies = 0
                 /\ ~workers'[s][k].failed
                 /\ \A i \in 1..Len(messageQueue'[s]) :
                      messageQueue'[s][i].id # workers'[s][k].msg]_vars

\* an event was dropped and the worker dequeued the next one
C6_Witness ==
    \E s \in Senders : /\ dropped[s] >= 1
                       /\ dequeued[s] >= RateLimitMax + 2

\* C7: when the handling of an event that passed the rate check has ended in
\* failure, the sender has received exactly one apology.
C7_ApologyOnFailure ==
    \A s \in Senders, k \in Slots :
        (workers[s][k].failed /\ workers[s][k].pc \in {"loop", "thrown"})
            => workers[s][k].apologies = 1

\* C8: while a worker of sender a is suspended inside a handler, every other
\* sender b can submit, has a worker whenever it has queued events, and each
\* of its workers can take its next step.
C8_NoCrossSenderWait ==
    \A a \in Senders, b \in Senders :
        (a # b /\ Suspended(a)) =>
            /\ Len(messageQueue[b]) > 0 => Active(b) # {}
            /\ \A k \in Active(b) : ENABLED StepOf(b, k)
            /\ env.budget[b] > 0 => ENABLED queueMessage(b, FALSE)

\* a is still awaiting the backend for its first event; b has finished all of its own
C8_Witness ==
    \E a \in Senders, b \in Senders :
        /\ a # b
        /\ \E k \in Slots : workers[a][k].pc = "generate"
        /\ dequeued[a] = 1
        /\ submitted[b] >= 1
        /\ env.budget[b] = 0
        /\ Len(backendLog[b]) = submitted[b]
        /\ Active(b) = {}

(***************************************************************************)
(* Properties of the Gemini client.                                        *)
(***************************************************************************)
\* C9: a call that passes maxRetries = n makes at most n + 1 request
\* attempts, for every n >= 0.
C9_AttemptBudget ==
    \A c \in Calls : calls[c].arg.given => calls[c].attempts <= calls[c].arg.n + 1

\* C10: an attempt that failed with a fatal error (auth, invalid request) is
\* not followed by another attempt of the same call.
C10_FatalNotRetried ==
    \A c \in Calls :
        (calls[c].pc = "await" /\ calls[c].attempt > 0)
            => calls[c].lastError \notin FatalErrors

RECURSIVE SumTo(_, _)
SumTo(f, n) == IF n = 0 THEN 0 ELSE f[n] + SumTo(f, n - 1)

IsBlank(t) == \A i \in 1..Len(t) : IsSpace(t[i])

\* slot i scores at least as much as slot j on the current counters
ScoreGE(i, j) ==
    ScoreNum(requestCounts, errorCounts, lastRequestTimes, gnow, i) * ScoreDen(requestCounts, j)
        >= ScoreNum(requestCounts, errorCounts, lastRequestTimes, gnow, j) * ScoreDen(requestCounts, i)

\* slot b has the maximal score and is the first slot that has it
IsBestSlot(b) == \A i \in Clients : ScoreGE(b, i) /\ (ScoreGE(i, b) => b <= i)

\* C11: generateContent returns the text of the first attempt that succeeds
\* and makes no attempt after it: a call that returned after k - 1 failed
\* attempts returned the text the backend answered on attempt k, k is within
\* the budget, exactly k attempts were made, and the call takes no further step.
C11_ReturnsFirstSuccess ==
    /\ [](\A c \in Calls : calls[c].pc = "done" =>
              /\ calls[c].attempts = calls[c].attempt + 1
              /\ calls[c].attempt <= calls[c].retries
              /\ calls[c].thrown = <<>>)
    /\ [][\A c \in Calls :
            /\ \A text \in ResponseTexts :
                  (calls[c].pc = "await" /\ calls'[c].pc = "done" /\ backendAnswers(c, text)) =>
                      /\ calls'[c].result = text
                      /\ calls'[c].attempts = calls[c].attempts
                      /\ requestCounts' = requestCounts
            /\ calls[c].pc = "done" => calls'[c] = calls[c]]_vars

C11_Witness ==
    \E c \in Calls :
        /\ calls[c].pc = "done"
        /\ calls[c].attempt = 2
        /\ calls[c].attempts = 3
        /\ calls[c].retries = DefaultMaxRetries
        /\ calls[c].result = <<" ", "h", "i">>

\* C12: a backend answer that is empty or only whitespace is a failed attempt:
\* no call ever returns a blank text, the answer adds one to the error counts,
\* and the call backs off for a retry while attempts remain and fails otherwise.
C12_BlankIsFailure ==
    /\ [](\A c \in Calls : calls[c].pc = "done" => ~IsBlank(calls[c].result))
    /\ [][\A c \in Calls :
            (calls[c].pc = "await" /\ calls'[c].pc # "await" /\ gnow' = gnow) =>
              \A text \in {t \in ResponseTexts : IsBlank(t)} :
                backendAnswers(c, text) =>
                /\ SumTo(errorCounts', NumClients) = SumTo(errorCounts, NumClients) + 1
                /\ calls'[c].lastError = EmptyResponseError
                /\ calls'[c].result = <<>>
                /\ calls'[c].pc = IF calls[c].attempt < calls[c].retries
                                    THEN "sleep" ELSE "failed"
                /\ calls[c].attempt < calls[c].retries =>
                      calls'[c].wakeAt = gnow + RetryDelay * Pow2(calls[c].attempt)]_vars

C12_Witness ==
    \E c \in Calls :
        /\ calls[c].pc = "await"
        /\ calls[c].attempt = 1
        /\ calls[c].lastError = EmptyResponseError
        /\ SumTo(errorCounts, NumClients) = 1

\* C13: when every permitted attempt has failed the call fails with the
\* exhaustion error, which carries the message of the last attempt's error;
\* it returns no value and the attempts never exceed the budget of the loop.
C13_ExhaustionCarriesLastError ==
    /\ [](\A c \in Calls :
              /\ calls[c].attempts <= calls[c].retries + 1
              /\ calls[c].pc = "failed" =>
                    /\ calls[c].attempts = calls[c].retries + 1
                    /\ calls[c].result = <<>>
                    /\ calls[c].thrown =
                          <<"Gemini", "request", "failed:">> \o calls[c].lastError)
    /\ [][\A c \in Calls :
            /\ \A msg \in BackendErrors :
                  (calls[c].pc = "await" /\ calls[c].attempt = calls[c].retries
                      /\ calls'[c] # calls[c] /\ backendRejects(c, msg)) =>
                      /\ calls'[c].pc = "failed"
                      /\ Includes(calls'[c].thrown, msg)
            /\ (calls[c].pc = "await" /\ calls[c].attempt = calls[c].retries
                   /\ calls'[c] # calls[c] /\ requestTimeout(c)) =>
                      /\ calls'[c].pc = "failed"
                      /\ Includes(calls'[c].thrown, TimeoutError)
            /\ calls[c].pc = "failed" => calls'[c] = calls[c]]_vars

C13_Witness ==
    \E c \in Calls :
        /\ calls[c].pc = "failed"
        /\ calls[c].attempts = DefaultMaxRetries + 1
        /\ calls[c].thrown = <<"Gemini", "request", "failed:", "503", "UNAVAILABLE">>

C15_BoundedHistory ==
    \A s \in Senders :
        LET m == conversations[s].messages
        IN  /\ Len(m) <= senv.maxChatHistory
            /\ \A i \in 1..(Len(m) - 1) : m[i].n < m[i + 1].n
            /\ (~obs.crashed /\ ~obs.cleaned) =>
                  /\ Len(m) = Min(obs.appended[s], senv.maxChatHistory)
                  /\ \A i \in 1..Len(m) : m[i].n = obs.appended[s] - Len(m) + i

C15_Witness ==
    \E s \in Senders :
        /\ obs.appended[s] = senv.maxChatHistory + BulkExtra
        /\ Len(conversations[s].messages) = senv.maxChatHistory
        /\ conversations[s].messages[1].n = BulkExtra + 1

\* C16: getConversationContext returns the most recent min(maxChatHistory, 50)
\* turns of the sender's conversation in insertion order, and the empty
\* sequence for a sender that has no conversation.
C16_RecentContext ==
    obs.readOf # "none" =>
        LET m == obs.readFrom.messages
            k == Min(Len(m), Min(senv.maxChatHistory, ContextCap))
        IN  /\ ~obs.readFrom.has => obs.context = <<>>
            /\ Len(obs.context) = k
            /\ \A i \in 1..k :
                  /\ obs.context[i].n = m[Len(m) - k + i].n
                  /\ obs.context[i].timestamp = m[Len(m) - k + i].timestamp
                  /\ obs.context[i].role =
                        (IF m[Len(m) - k + i].role = "assistant" THEN "model" ELSE "user")

C16_Witness ==
    /\ obs.readOf = BurstSender
    /\ Len(obs.readFrom.messages) > ContextCap
    /\ Len(obs.context) = ContextCap
    /\ obs.context[ContextCap].n = obs.appended[BurstSender]

\* C17: at every moment the durable file holds one complete snapshot written
\* by some flush, never a partially written or mixed one, whatever flushes
\* overlap in time.
C17_DurableFileComplete ==
    file.exists => file.state = "complete" /\ file.writers = {}

\* C18: as long as flushes run one at a time, the durable file holds the
\* snapshot of the last flush that reached its rename (no file before the
\* first), at every step of a later flush before its rename; and a process
\* started again after being stopped loads exactly that snapshot.
C18_InterruptedFlushKeepsSnapshot ==
    ~obs.overlap =>
        /\ IF file.exists
             THEN /\ file.state = "complete"
                  /\ file.writers = {}
                  /\ file.data = Serialize(obs.lastFlushed)
             ELSE obs.lastFlushed = EmptyMap
        /\ phase # "dead"
        /\ obs.loaded = obs.expected

\* stopped after the temporary file was written in full and before the rename,
\* with an older snapshot in the durable file, and started again
C18_Witness ==
    /\ obs.crashed
    /\ ~obs.overlap
    /\ phase = "up"
    /\ obs.loaded # EmptyMap
    /\ obs.loaded = obs.lastFlushed
    /\ tmp.exists
    /\ tmp.state = "complete"
    /\ tmp.data # file.data

\* C19: every mutation cancels the pending debounced save and schedules a new
\* one a quiet period later: at most one is pending, it is due a quiet period
\* after the last mutation, and when it fires it is the only write of the
\* burst and serializes a map that holds every mutation made so far.
C19_DebouncedSave ==
    /\ [](phase = "up" =>
            /\ Cardinality(timers.pending) <= 1
            /\ timers.pending =
                  IF obs.dirty
                    THEN {[h |-> saveTimeout, due |-> obs.lastMutation + Sec(QuietPeriodMs)]}
                    ELSE {})
    /\ [][\A t \in timers.pending, f \in Flushes :
            (flushes[f].pc = "idle" /\ flushes'[f].pc = "writing" /\ saveTimerFires(t, f)) =>
                /\ snow >= obs.lastMutation + Sec(QuietPeriodMs)
                /\ timers'.pending = {}
                /\ flushes'[f].data = Serialize(conversations)
                /\ \A s \in Senders :
                      (obs.appended[s] > 0 /\ ~obs.crashed /\ ~obs.cleaned) =>
                          \E e \in flushes'[f].data :
                              /\ e[1] = s
                              /\ e[2].messages[Len(e[2].messages)].n = obs.appended[s]]_vars

\* three mutations in a burst, gaps shorter than the quiet period, and the one
\* save they led to
C19_Witness ==
    /\ obs.appended[BurstSender] = 2
    /\ conversations[BurstSender].emotionalProfile # <<>>
    /\ obs.lastMutation > 0
    /\ obs.lastMutation < Sec(QuietPeriodMs)
    /\ timers.next = 4
    /\ \E f \in Flushes : flushes[f].kind = "debounced" /\ flushes[f].pc = "writing"

\* C20: when the flush made by cleanup() at shutdown has failed after its
\* retries, the cleanup() call fails towards its caller.
C20_ShutdownFailureSurfaced ==
    obs.shutdownFlushFailed => obs.cleanupResult = "threw"

\* the Map a process started now would load
DurableMap == IF file.exists /\ file.state = "complete" THEN Parse(file.data) ELSE EmptyMap

C22_RetentionDeletes ==
    [][obs'.cycles = obs.cycles + 1 =>
          \A s \in Senders :
              LET c == conversations[s]
              IN  /\ ~c.has => ~conversations'[s].has
                  /\ c.has =>
                        (~conversations'[s].has <=>
                            /\ c.lastMessageTime # Undefined
                            /\ snow - c.lastMessageTime > RetentionDays * DaySec
                            /\ Len(c.messages) < KeepThreshold)]_vars

\* the first run found a conversation of 3 turns and one of 15, both last
\* touched 31 days before, deleted the first and not the second
C22_Witness ==
    /\ obs.cycles = 1
    /\ snow = 31 * DaySec
    /\ obs.before[BurstSender] = Grown(FewTurns, 0, ContextCap)
    /\ \E s \in Senders : obs.before[s] = Grown(ManyTurns, 0, ContextCap) /\ conversations[s].has
    /\ ~conversations[BurstSender].has

\* C23: a conversation of at least 10 turns that the process loaded and that
\* got no append since is still in the Map, with its turns, after any number
\* of runs of the retention cleanup.
C23_SubstantialNeverAgedOut ==
    \A s \in Senders :
        (/\ phase = "up"
         /\ Len(obs.loaded[s].messages) >= KeepThreshold
         /\ obs.appended[s] = 0)
            => /\ conversations[s].has
               /\ conversations[s].messages = obs.loaded[s].messages

\* C24: once cleanup() has returned no retention cleanup is armed or runs, no
\* debounced save was pending at the return or is pending later, and the
\* durable snapshot is the in-memory map as cleanup() left it.
C24_GracefulDrain ==
    obs.cleanupResult = "returned" =>
        /\ phase = "down"
        /\ intervals = {}
        /\ timers.pending = {}
        /\ obs.pendingAtReturn = {}
        /\ obs.lastFlushed = conversations

\* C25: what saveChatHistory serializes parses back to the Map it was made
\* from (senders, turns in order, metadata), and a process that starts loads
\* the empty Map when there is no durable file and otherwise, flushes having
\* run one at a time, the Map of the last flush that completed.
C25_FlushLoadRoundTrip ==
    /\ [](\A f \in Flushes :
              flushes[f].pc \in {"writing", "written"} =>
                  Parse(flushes[f].data) = flushes[f].snap)
    /\ [][(phase = "new" /\ phase' = "up") =>
              IF ~file.exists THEN conversations' = EmptyMap
              ELSE ~obs.overlap => conversations' = obs.lastFlushed]_vars

\* a process started on the file a flush of two conversations left and loaded them
C25_Witness ==
    /\ obs.crashed
    /\ ~obs.overlap
    /\ phase = "up"
    /\ obs.lastFlushed = conversations
    /\ \A s \in Senders : conversations[s].has /\ Len(conversations[s].messages) >= 1


\* the timers of the event loop fire: a race that only its timer can settle
\* is settled in the end
DispatchProgress == \E s \in Senders, k \in Slots : assembleContent(s, k)

\* the dispatcher with the content environment alone
ContentInit == GInit(SoloEnv) /\ SInit(StoreGeneralEnv) /\ DInit(ContentEnv) /\ HQuiet

SpecDispatchFair == ContentInit /\ [][Next]_vars /\ WF_vars(DispatchProgress)

\* C26: whatever the tool, memory and relationship subtasks of an event do
\* (settle, fail, or stay pending for ever), the content assembly of the
\* event can finish, and does finish; it hands the event on to the user-turn
\* append and never to the handler's catch block; a subtask that settles or
\* fails changes nothing of the worker that handles the event.
C26_AssemblyNeverWaitsOnBackground ==
    /\ [](\A s \in Senders, k \in Slots :
            workers[s][k].pc = "assemble" => ENABLED assembleContent(s, k))
    /\ [][\A s \in Senders :
            /\ background'[s] # background[s] /\ background[s] # NoBackground
                 /\ background'[s] # Launched
                 => workers' = workers /\ chatHistory' = chatHistory
            /\ \A k \in Slots :
                 workers[s][k].pc = "assemble" /\ workers'[s][k].pc # "assemble"
                 => /\ workers'[s][k].pc = "content"
                    /\ ~workers'[s][k].failed
                    /\ workers'[s][k].toolsProcessed = (background[s]["tools"] = "done")]_vars
    /\ \A s \in Senders, k \in Slots :
         (workers[s][k].pc = "assemble") ~> (workers[s][k].pc # "assemble")

\* the tool subtask of an event failed, its memory and relationship subtasks
\* never settled, and the event has had its user turn and its assistant turn
\* stored and its reply sent
C26_Witness ==
    \E k \in Slots :
        /\ workers[BurstSender][k].pc = "loop"
        /\ workers[BurstSender][k].msg = 1
        /\ ~workers[BurstSender][k].failed
        /\ ~workers[BurstSender][k].toolsProcessed
        /\ background[BurstSender]["tools"] = "failed"
        /\ background[BurstSender]["memory"] = "running"
        /\ background[BurstSender]["relationship"] = "running"
        /\ chatHistory[BurstSender] = <<<<"user", 1>>, <<"assistant", 1>>>>

\* the positions of the turn <<role, id>> in a sender's history
TurnsOf(s, role, id) == {i \in DOMAIN chatHistory[s] : chatHistory[s][i] = <<role, id>>}

\* how often the backend was invoked for event id of sender s
InvokedFor(s, id) == Cardinality({i \in DOMAIN backendLog[s] : backendLog[s][i] = id})

\* the stages of _handleSingleMessage in the order of its statements, and
\* the stages each one may hand over to
HandlerOrder ==
    [assemble |-> {"content"},
     content  |-> {"stored", "catch"},
     stored   |-> {"generate"},
     generate |-> {"send", "catch"},
     send     |-> {"loop", "catch"}]

\* C27: an event passes the rate check, then the content assembly, then has
\* its user turn appended, then the backend invoked, then its assistant turn
\* appended, then its reply sent; an assistant turn is appended only by the
\* step in which generate returned successfully; a failing generate leaves
\* the user turn where it is and no assistant turn is ever appended for the
\* event.
C27_StepOrder ==
    /\ [](\A s \in Senders :
            /\ \A i \in DOMAIN chatHistory[s] :
                 chatHistory[s][i][1] = "assistant" =>
                   /\ \E j \in 1..(i - 1) : chatHistory[s][j] = <<"user", chatHistory[s][i][2]>>
                   /\ InvokedFor(s, chatHistory[s][i][2]) = 1
                   /\ Cardinality(TurnsOf(s, "assistant", chatHistory[s][i][2])) = 1
            /\ \A i \in DOMAIN backendLog[s] :
                 /\ InvokedFor(s, backendLog[s][i]) = 1
                 /\ Cardinality(TurnsOf(s, "user", backendLog[s][i])) = 1
            /\ \A k \in Slots :
                 LET w == workers[s][k]
                     u == TurnsOf(s, "user", w.msg)
                     a == TurnsOf(s, "assistant", w.msg)
                 IN /\ w.pc \in {"assemble", "content"}
                         => u = {} /\ a = {} /\ InvokedFor(s, w.msg) = 0
                    /\ w.pc = "stored" => u # {} /\ a = {} /\ InvokedFor(s, w.msg) = 0
                    /\ w.pc = "generate" => u # {} /\ a = {} /\ InvokedFor(s, w.msg) = 1
                    /\ w.pc = "send" => u # {} /\ a # {} /\ InvokedFor(s, w.msg) = 1)
    /\ [][\A s \in Senders, k \in Slots :
            LET w == workers[s][k]
                v == workers'[s][k]
            IN /\ (v.pc = "assemble" /\ w.pc # "assemble")
                    => /\ w.pc \in {"free", "loop"}
                       /\ ~isRateLimited(rateLimiter[s], now)
                       /\ win'[s].passed >= 1
                       /\ rateLimiter'[s] = EntryAfterPrefix(rateLimiter[s], now)
               /\ (w.pc \in DOMAIN HandlerOrder /\ v # w)
                    => v.pc \in HandlerOrder[w.pc] /\ v.msg = w.msg
               /\ chatHistory'[s] # chatHistory[s]
                    => \E j \in Slots :
                         \/ /\ workers[s][j].pc = "content" /\ workers'[s][j].pc = "stored"
                            /\ chatHistory'[s] = Append(chatHistory[s], <<"user", workers[s][j].msg>>)
                         \/ /\ workers[s][j].pc = "generate" /\ workers'[s][j].pc = "send"
                            /\ backendReturn(s, j, TRUE, TRUE)
                            /\ chatHistory'[s] =
                                 Append(chatHistory[s], <<"assistant", workers[s][j].msg>>)
               /\ (w.pc = "generate" /\ backendReturn(s, k, FALSE, TRUE))
                    => /\ chatHistory' = chatHistory
                       /\ TurnsOf(s, "user", w.msg) # {}
                       /\ v.pc = "catch" /\ v.failed
               /\ (w.pc = "send" /\ v.pc = "loop")
                    => Len(chatHistory[s]) >= 2
                       /\ chatHistory[s][Len(chatHistory[s])] = <<"assistant", w.msg>>]_vars

\* the first event of a sender went through all six steps, and the generate
\* of its second event failed: the second user turn is stored without an
\* assistant turn, and the handler is in its catch block
C27_Witness ==
    \E k \in Slots :
        /\ chatHistory[BurstSender] = <<<<"user", 1>>, <<"assistant", 1>>, <<"user", 2>>>>
        /\ backendLog[BurstSender] = <<1, 2>>
        /\ workers[BurstSender][k].pc = "catch"
        /\ workers[BurstSender][k].msg = 2
        /\ workers[BurstSender][k].failed
        /\ win[BurstSender].passed = 2

\* C28: an attempt whose request has not answered when GeminiTimeout has
\* passed is failed with the timeout error: the call sleeps before its retry
\* when attempts remain and throws otherwise, and the request stays in flight;
\* when that request settles afterwards, no call and no slot counter changes;
\* a call never returns from an attempt whose request it abandoned.
C28_TimeoutFailsAttempt ==
    /\ [](\A o \in abandoned :
            /\ calls[o.call].pc # "idle"
            /\ calls[o.call].attempt >= o.attempt
            /\ calls[o.call].pc \in {"await", "done"} => calls[o.call].attempt > o.attempt)
    /\ [][/\ \A c \in Calls :
               (calls[c].pc = "await" /\ requestTimeout(c))
                 => /\ gnow >= calls[c].started + GeminiTimeout
                    /\ calls'[c].lastError = TimeoutError
                    /\ calls'[c].result = <<>>
                    /\ IF calls[c].attempt < calls[c].retries
                         THEN calls'[c].pc = "sleep"
                         ELSE /\ calls'[c].pc = "failed"
                              /\ calls'[c].thrown = ExhaustedError(TimeoutError)
                    /\ [call |-> c, attempt |-> calls[c].attempt,
                        client |-> calls[c].client] \in abandoned'
          /\ (\E o \in abandoned : o \notin abandoned')
                 => /\ calls' = calls
                    /\ requestCounts' = requestCounts
                    /\ errorCounts' = errorCounts
                    /\ lastRequestTimes' = lastRequestTimes]_vars

\* the request of attempt 0 timed out and settled late while the call was
\* in a later attempt, and the call then returned that attempt's answer
C28_Witness ==
    \E c \in Calls :
        /\ calls[c].pc = "done"
        /\ calls[c].attempt >= 1
        /\ calls[c].lastError = TimeoutError
        /\ calls[c].result = <<"o", "k">>
        /\ abandoned = {}
        /\ genv.lates = MaxLates - 1

\* C29: the step in which an attempt of a call fails, retryably or not, adds
\* one to the error count of the slot that served the attempt (the slot whose
\* request count the attempt incremented) and leaves every other slot's error
\* count alone, also with another call in flight; error counts change in no
\* other step.
C29_ErrorOnServingSlot ==
    [][/\ \A c \in Calls :
            (calls[c].pc = "await" /\ calls'[c].pc \in {"sleep", "failed"})
              => errorCounts' = [errorCounts EXCEPT ![calls[c].client] = @ + 1]
       /\ errorCounts' # errorCounts
            => \E c \in Calls : calls[c].pc = "await" /\ calls'[c].pc \in {"sleep", "failed"}]_vars

\* C30: when attempt number a of a call fails and attempts remain, the call
\* sleeps retryDelay * 2^a from the moment of the failure and begins attempt
\* a + 1 no earlier; each delay is twice the one before it; when the last
\* permitted attempt fails, the call throws in that same step, with no sleep
\* and no time passing.
C30_ExponentialBackoff ==
    /\ [](\A c \in Calls :
            /\ calls[c].pc = "sleep" =>
                 /\ calls[c].attempt < calls[c].retries
                 /\ calls[c].delay = RetryDelay * (2 ^ calls[c].attempt)
                 /\ calls[c].wakeAt >= calls[c].started + calls[c].delay
            /\ (calls[c].pc = "await" /\ calls[c].attempt > 0) =>
                 /\ calls[c].started >= calls[c].wakeAt
                 /\ calls[c].delay = RetryDelay * (2 ^ (calls[c].attempt - 1)))
    /\ [][\A c \in Calls :
            (calls[c].pc = "await" /\ calls'[c].pc \notin {"await", "done"}) =>
               IF calls[c].attempt < calls[c].retries
                 THEN /\ calls'[c].pc = "sleep"
                      /\ calls'[c].wakeAt = gnow + RetryDelay * (2 ^ calls[c].attempt)
                      /\ calls'[c].delay = calls'[c].wakeAt - gnow
                      /\ calls[c].attempt > 0 =>
                           /\ calls'[c].delay = 2 * calls[c].delay
                           /\ calls'[c].delay > calls[c].delay
                 ELSE /\ calls'[c].pc = "failed"
                      /\ calls'[c].thrown # <<>>
                      /\ calls'[c].wakeAt = calls[c].wakeAt
                      /\ calls'[c].delay = calls[c].delay
                      /\ gnow' = gnow]_vars

\* a call of three retries failed on attempts 0 and 1, slept 1000 ms and
\* 2000 ms, and returned the answer of attempt 2
C30_Witness ==
    \E c \in Calls :
        /\ calls[c].pc = "done"
        /\ calls[c].retries = DefaultMaxRetries
        /\ calls[c].attempt = 2
        /\ calls[c].delay = 2 * RetryDelay
        /\ calls[c].started >= IdleCapSeconds * 1000 + 3 * RetryDelay

\* an fs call of invocation f fails in this step
FlushFails(f) ==
    \/ writeDone(f, FALSE, FALSE)
    \/ renameTmp(f, FALSE)
    \/ renameTmp(f, TRUE) /\ ~tmp.exists

\* C31: a flush makes at most DbMaxRetries + 1 write attempts; after failed
\* attempt number n (from 0) with retries left it waits (n + 1) times the
\* retry delay and starts attempt n + 1 no earlier; when attempt DbMaxRetries
\* fails the invocation ends there with the failure handed to its caller; no
\* failing attempt and no retry changes the in-memory map.
C31_FlushRetries ==
    /\ [](\A f \in Flushes :
            /\ flushes[f].retryCount <= DbMaxRetries
            /\ flushes[f].pc = "wait" =>
                 /\ flushes[f].retryCount < DbMaxRetries
                 /\ flushes[f].wakeAt <= snow + Sec(DbRetryDelay) * (flushes[f].retryCount + 1))
    /\ [][\A f \in Flushes :
            LET r == flushes[f] IN
            /\ (r.pc \in {"writing", "written"} /\ FlushFails(f)) =>
                 /\ conversations' = conversations
                 /\ IF r.retryCount < DbMaxRetries
                      THEN /\ flushes'[f].pc = "wait"
                           /\ flushes'[f].retryCount = r.retryCount
                           /\ flushes'[f].wakeAt = snow + Sec(DbRetryDelay) * (r.retryCount + 1)
                      ELSE /\ flushes'[f] = IdleFlush
                           /\ r.kind = "debounced" => obs'.backgroundFailed
                           /\ r.kind = "shutdown" => obs'.shutdownFlushFailed
                           /\ obs'.lastFlushed = obs.lastFlushed
            /\ (r.pc = "wait" /\ flushes'[f] # r /\ phase' = "up") =>
                 /\ snow >= r.wakeAt
                 /\ flushes'[f].pc = "writing"
                 /\ flushes'[f].retryCount = r.retryCount + 1
                 /\ flushes'[f].kind = r.kind
                 /\ conversations' = conversations]_vars

\* the four attempts of a debounced flush have failed, 1 + 2 + 3 retry
\* delays after the first, and the Map still holds what was not saved
C31_Witness ==
    /\ obs.backgroundFailed
    /\ senv.faults = OutageFaults - (DbMaxRetries + 1)
    /\ snow >= Sec(QuietPeriodMs) + 6 * Sec(DbRetryDelay)
    /\ \A f \in Flushes : flushes[f].pc = "idle"
    /\ conversations # EmptyMap
    /\ DurableMap # conversations

\* C32: a run of performCleanup starts a save exactly when it changed the
\* Map; a run that deleted no conversation and removed no turn starts no
\* save and leaves the durable file and the temporary file as they were.
C32_CleanupFlushIffChanged ==
    [][obs'.cycles = obs.cycles + 1 =>
         LET saves == \E f \in Flushes : /\ flushes[f].pc = "idle"
                                        /\ flushes'[f].pc = "writing"
                                        /\ flushes'[f].kind = "cleanup"
                                        /\ flushes'[f].snap = conversations'
         IN /\ saves <=> conversations' # conversations
            /\ conversations' = conversations =>
                 flushes' = flushes /\ file' = file /\ tmp' = tmp]_vars

\* the first cleanup run changed the Map and its save has reached the durable
\* file; the second run found the Map non-empty, changed nothing, saved nothing
C32_Witness ==
    /\ obs.cycles = 2
    /\ obs.cleaned
    /\ obs.before = conversations
    /\ conversations # EmptyMap
    /\ \A f \in Flushes : flushes[f].pc = "idle"
    /\ DurableMap = conversations

RECURSIVE SumOver(_, _)
SumOver(f, S) == IF S = {} THEN 0
                 ELSE LET x == CHOOSE y \in S : TRUE IN f[x] + SumOver(f, S \ {x})

\* the attempts of call c that have failed so far: all it started, but the
\* one in flight or the one that returned
FailedAttempts(c) ==
    calls[c].attempts - (IF calls[c].pc \in {"await", "done"} THEN 1 ELSE 0)

\* C33: with calls in flight concurrently no update of a slot counter is
\* lost: the request counts of all slots add up to the attempts started, the
\* error counts to the attempts that failed, and a step changes at most one
\* counter of each kind, by plus one.
C33_CountersLoseNoUpdate ==
    /\ [](/\ SumOver(requestCounts, Clients) = SumOver([c \in Calls |-> calls[c].attempts], Calls)
          /\ SumOver(errorCounts, Clients) = SumOver([c \in Calls |-> FailedAttempts(c)], Calls))
    /\ [][/\ \A i \in Clients :
               /\ requestCounts'[i] \in {requestCounts[i], requestCounts[i] + 1}
               /\ errorCounts'[i] \in {errorCounts[i], errorCounts[i] + 1}
          /\ SumOver(requestCounts', Clients) <= SumOver(requestCounts, Clients) + 1
          /\ SumOver(errorCounts', Clients) <= SumOver(errorCounts, Clients) + 1]_vars

\* two calls are under way, three attempts were started on two slots, two of
\* them have failed, and one call awaits its backend while the other sleeps
C33_Witness ==
    /\ \A c \in Calls : calls[c].pc \in {"await", "sleep"}
    /\ \E c \in Calls : calls[c].pc = "await" /\ calls[c].attempt = 1
    /\ \E c \in Calls : calls[c].pc = "sleep"
    /\ \A i \in Clients : requestCounts[i] >= 1
    /\ SumOver(requestCounts, Clients) = 3
    /\ SumOver(errorCounts, Clients) = 2

\* C34: in every state each slot's error count is at most its request count,
\* and so no slot scores below zero, whatever the interleaving of the calls.
C34_ErrorsWithinRequests ==
    \A i \in Clients :
        /\ errorCounts[i] <= requestCounts[i]
        /\ ScoreNum(requestCounts, errorCounts, lastRequestTimes, gnow, i) >= 0

\* C35: once cleanup() of the service has run, with a worker of a sender
\* suspended in its handler or not, that sender never has two active
\* workers, no event submitted afterwards is taken from the queue twice, and
\* when the sender's worker has finished every event submitted afterwards
\* has been taken from the queue.
C35_CleanupKeepsOneWorker ==
    cleanedAt.ran =>
        \A s \in Senders :
            /\ Cardinality(Active(s)) <= 1
            /\ dequeued[s] - cleanedAt.dequeued[s] <= submitted[s] - cleanedAt.submitted[s]
            /\ Active(s) = {} =>
                 dequeued[s] - cleanedAt.dequeued[s] = submitted[s] - cleanedAt.submitted[s]

\* C36: when addMessage calls that found the store uninitialized have all
\* returned, the durable file was loaded into the Map once, one cleanup
\* interval is running, and the turn of each of those calls is in the Map.
C36_LazyInitOnce ==
    (/\ \E c \in LazyCalls : lazy.calls[c].pc = "done"
     /\ \A c \in LazyCalls : lazy.calls[c].pc \in {"idle", "done"})
        => /\ lazy.loads = 1
           /\ Cardinality(intervals) = 1
           /\ \A c \in LazyCalls :
                lazy.calls[c].pc = "done" =>
                  \E i \in DOMAIN conversations[lazy.calls[c].sender].messages :
                      conversations[lazy.calls[c].sender].messages[i].n = lazy.calls[c].n

\* C37: in every state of the store, the messageCount of each conversation
\* a turn was appended to is the number of turns the conversation holds, and
\* its lastMessageTime is the timestamp of its newest turn, no turn being newer.
C37_MetadataMatchesTurns ==
    \A s \in Senders :
        (conversations[s].has /\ conversations[s].messageCount # NoConversation.messageCount) =>
            /\ conversations[s].messageCount = Len(conversations[s].messages)
            /\ \A i \in DOMAIN conversations[s].messages :
                   conversations[s].messages[i].timestamp <= conversations[s].lastMessageTime

\* C38: a run of the retention cleanup leaves every conversation it does
\* not delete as it was: the same turns in the same order, the same metadata.
C38_CleanupKeepsRetained ==
    [][obs'.cycles = obs.cycles + 1 =>
          \A s \in Senders :
              (conversations[s].has /\ conversations'[s].has) =>
                  conversations'[s] = conversations[s]]_vars

HealthInit == DInit(GeneralEnv) /\ GInit(SoloEnv) /\ SInit(StoreGeneralEnv) /\ HInit

HealthNext == runCheck \/ exitProcess

SpecHealth == HealthInit /\ [][HealthNext]_vars

\* C39: when runHealthChecks has returned, overall_status is the worst
\* status over all the checks (critical iff some check was critical or
\* threw, else warning iff some check was a warning, else healthy) and
\* passed + warnings + failed is the number of checks.
C39_WorstStatus ==
    health.pc \in {"returned", "exited"} =>
        LET crit == \E name \in CheckNames : health.outcome[name] \in {"critical", "threw"}
            warn == \E name \in CheckNames : health.outcome[name] = "warning"
            sum  == health.results.summary
        IN  /\ health.results.overall_status = "critical" <=> crit
            /\ health.results.overall_status = "warning" <=> (~crit /\ warn)
            /\ health.results.overall_status = "healthy" <=> (~crit /\ ~warn)
            /\ sum.passed + sum.warnings + sum.failed = sum.total

====
